---- MODULE Spec2Model ----
(***************************************************************************)
(* Event ingestion and reconciliation pipeline of cursor-usage-tracker:    *)
(* DataStorage (src/src/storage/data_storage.js), DataCollector            *)
(* (src/src/collectors/data_collector.js) and the configuration object     *)
(* (src/unnamed/part_003).                                                 *)
(*                                                                         *)
(* Conventions.                                                            *)
(*  - Instants are counted in hours (one model unit = 60*60*1000 ms); the  *)
(*    vendor's epoch-millisecond strings are fixed-width decimal strings,  *)
(*    here two digits wide.                                                *)
(*  - A JavaScript string is a sequence of one-character strings.          *)
(*  - A JavaScript number that may be NaN is <<n>> or <<>> (NaN); a value  *)
(*    that may be undefined/null/absent is <<v>> or <<>>.                  *)
(*  - Money is counted in cents (dollars * 100).                           *)
(*  - A persisted document is what JSON.parse(JSON.stringify(d)) yields:   *)
(*    Date objects become ISO strings.                                     *)
(***************************************************************************)
EXTENDS Integers, Sequences, FiniteSets, TLC

VARIABLES usageFile, statsFile, now, last, pc, cycle, probe

vars == <<usageFile, statsFile, now, last, pc, cycle, probe>>

-----------------------------------------------------------------------------
(* Bounds of the model *)

MaxBatch == 2
MaxTicks == 1
MaxPages == 2
\* Collection cycles started in one behaviour of SpecCycle
MaxCycles == 2
\* Longest event list handed to calculateStats in SpecStats
MaxEvents == 3
\* Calls of saveUsageData in one behaviour of SpecSave
MaxSaves == 2
\* Collections in flight at once in SpecApp
MaxInFlight == 3
\* Subscribers of the live-update stream in SpecPipeline
MaxClients == 2
MaxVendorPages == 3

-----------------------------------------------------------------------------
(* JavaScript values *)

NaN == <<>>
undefined == <<>>
\* The value null, where an object is expected
null == [isNull |-> TRUE]

Num(n) == <<n>>

JsMul(a, b) == IF a = NaN \/ b = NaN THEN NaN ELSE Num(a[1] * b[1])
JsSub(a, b) == IF a = NaN \/ b = NaN THEN NaN ELSE Num(a[1] - b[1])
JsGe(a, b) == a # NaN /\ b # NaN /\ a[1] >= b[1]
JsGt(a, b) == a # NaN /\ b # NaN /\ a[1] > b[1]

Digits == <<"0", "1", "2", "3", "4", "5", "6", "7", "8", "9">>
IsDigit(c) == \E d \in DOMAIN Digits : Digits[d] = c
DigitVal(c) == (CHOOSE d \in DOMAIN Digits : Digits[d] = c) - 1

RECURSIVE LeadingDigits(_)
LeadingDigits(s) ==
    IF s = <<>> \/ ~IsDigit(Head(s)) THEN <<>>
    ELSE <<Head(s)>> \o LeadingDigits(Tail(s))

RECURSIVE DigitsValue(_)
DigitsValue(s) ==
    IF s = <<>> THEN 0 ELSE DigitsValue(SubSeq(s, 1, Len(s) - 1)) * 10 + DigitVal(s[Len(s)])

\* parseInt(string): the leading decimal digits, NaN when there are none
parseInt(s) == IF LeadingDigits(s) = <<>> THEN NaN ELSE Num(DigitsValue(LeadingDigits(s)))

\* parseFloat(string) of an amount; the strings of the model are written in cents and
\* hold no fraction, so the result is the leading digits, NaN when there are none
parseFloat(s) == IF LeadingDigits(s) = <<>> THEN NaN ELSE Num(DigitsValue(LeadingDigits(s)))

\* Number.prototype.toString() of a non-negative integer
RECURSIVE NumToString(_)
NumToString(n) ==
    IF n < 10 THEN <<Digits[n + 1]>> ELSE NumToString(n \div 10) \o <<Digits[(n % 10) + 1]>>

\* String(value) of a string that may be undefined
StringOf(v) == IF v = undefined THEN <<"undefined">> ELSE v

\* s.split('_')[0]
RECURSIVE SplitFirst(_)
SplitFirst(s) ==
    IF s = <<>> \/ Head(s) = "_" THEN <<>> ELSE <<Head(s)>> \o SplitFirst(Tail(s))

\* s.startsWith(p)
startsWith(s, p) == Len(p) <= Len(s) /\ SubSeq(s, 1, Len(p)) = p

\* A Date object, its JSON form (toISOString), and new Date(x).getTime() of either
DateObj(t) == <<"Date", t>>
toISOString(d) == <<"ISO", d[2]>>
TimeOf(d) == d[2]

SeqToSet(s) == {s[i] : i \in DOMAIN s}

\* Array.prototype.sort((a, b) => new Date(b.date) - new Date(a.date)): stable, newest first
RECURSIVE InsertByDate(_, _)
InsertByDate(sorted, e) ==
    IF sorted = <<>> THEN <<e>>
    ELSE IF TimeOf(e.date) > TimeOf(Head(sorted).date) THEN <<e>> \o sorted
    ELSE <<Head(sorted)>> \o InsertByDate(Tail(sorted), e)

RECURSIVE SortByDateDesc(_)
SortByDateDesc(s) ==
    IF s = <<>> THEN <<>>
    ELSE InsertByDate(SortByDateDesc(SubSeq(s, 1, Len(s) - 1)), s[Len(s)])

-----------------------------------------------------------------------------
(* Configuration: the keys the CONFIG object defines (values with no
   environment override).  A key the object does not define reads as
   undefined. *)

CONFIG_README ==
    [WEB_PORT |-> 3000, TIMEOUT |-> 30000, API_TIMEOUT |-> 10000,
     COLLECTION_INTERVAL |-> 100000, MAX_RETRIES |-> 3, PAGE_SIZE |-> 100,
     ACTIVE_EVENTS_CHECK_HOURS |-> 24, ACTIVE_EVENTS_MAX_COUNT |-> 100]

CONFIG ==
    [WEB_PORT |-> 3000, TIMEOUT |-> 30000, API_TIMEOUT |-> 10000,
     COLLECTION_INTERVAL |-> 100000, MAX_RETRIES |-> 3, PAGE_SIZE |-> 100]

ConfigGet(key) == IF key \in DOMAIN CONFIG THEN <<CONFIG[key]>> ELSE undefined

\* 60 * 60 * 1000 ms, in model units
MsPerHour == 1
\* 1577836800000 ms (2020-01-01), in model units
Y2020 == 10
DefaultPageSize == 500

-----------------------------------------------------------------------------
(* Event Normalizer *)

IncludedKinds ==
    {"USAGE_EVENT_KIND_CUSTOM_SUBSCRIPTION", "USAGE_EVENT_KIND_INCLUDED_IN_PRO",
     "USAGE_EVENT_KIND_INCLUDED_IN_BUSINESS", "USAGE_EVENT_KIND_INCLUDED_IN_PRO_PLUS",
     "USAGE_EVENT_KIND_INCLUDED_IN_ULTRA"}

NotChargedKinds ==
    {"USAGE_EVENT_KIND_ERRORED_NOT_CHARGED", "USAGE_EVENT_KIND_ABORTED_NOT_CHARGED"}

\* The switch without its two special subscription names
KindSlugWithoutNames(event) ==
    CASE event.kind = "USAGE_EVENT_KIND_CUSTOM_SUBSCRIPTION" -> "custom_subscription"
      [] event.kind = "USAGE_EVENT_KIND_INCLUDED_IN_PRO" -> "included_pro"
      [] event.kind = "USAGE_EVENT_KIND_INCLUDED_IN_BUSINESS" -> "included_business"
      [] event.kind = "USAGE_EVENT_KIND_INCLUDED_IN_PRO_PLUS" -> "included_pro_plus"
      [] event.kind = "USAGE_EVENT_KIND_INCLUDED_IN_ULTRA" -> "included_ultra"
      [] event.kind = "USAGE_EVENT_KIND_ERRORED_NOT_CHARGED" -> "errored_not_charged"
      [] event.kind = "USAGE_EVENT_KIND_ABORTED_NOT_CHARGED" -> "aborted_not_charged"
      [] event.kind = "USAGE_EVENT_KIND_USAGE_BASED" -> "usage_based"
      [] event.kind = "USAGE_EVENT_KIND_USER_API_KEY" -> "user_api_key"
      [] OTHER -> "unknown"

KindSlug(event) ==
    CASE event.kind = "USAGE_EVENT_KIND_CUSTOM_SUBSCRIPTION" ->
            (IF event.customSubscriptionName = "pro-free-trial" THEN "pro-free-trial"
             ELSE IF event.customSubscriptionName = "free" THEN "free"
             ELSE "custom_subscription")
      [] event.kind = "USAGE_EVENT_KIND_INCLUDED_IN_PRO" -> "included_pro"
      [] event.kind = "USAGE_EVENT_KIND_INCLUDED_IN_BUSINESS" -> "included_business"
      [] event.kind = "USAGE_EVENT_KIND_INCLUDED_IN_PRO_PLUS" -> "included_pro_plus"
      [] event.kind = "USAGE_EVENT_KIND_INCLUDED_IN_ULTRA" -> "included_ultra"
      [] event.kind = "USAGE_EVENT_KIND_ERRORED_NOT_CHARGED" -> "errored_not_charged"
      [] event.kind = "USAGE_EVENT_KIND_ABORTED_NOT_CHARGED" -> "aborted_not_charged"
      [] event.kind = "USAGE_EVENT_KIND_USAGE_BASED" -> "usage_based"
      [] event.kind = "USAGE_EVENT_KIND_USER_API_KEY" -> "user_api_key"
      [] OTHER -> "unknown"

\* kindDisplay of the same switch
KindDisplay(event) ==
    CASE event.kind = "USAGE_EVENT_KIND_CUSTOM_SUBSCRIPTION" ->
            (IF event.customSubscriptionName = "pro-free-trial" THEN "Pro Free Trial"
             ELSE IF event.customSubscriptionName = "free" THEN "Free"
             ELSE IF event.customSubscriptionName # "" THEN event.customSubscriptionName
             ELSE "Custom Subscription")
      [] event.kind = "USAGE_EVENT_KIND_INCLUDED_IN_PRO" -> "Included in Pro"
      [] event.kind = "USAGE_EVENT_KIND_INCLUDED_IN_BUSINESS" -> "Included in Business"
      [] event.kind = "USAGE_EVENT_KIND_INCLUDED_IN_PRO_PLUS" -> "Included in Pro+"
      [] event.kind = "USAGE_EVENT_KIND_INCLUDED_IN_ULTRA" -> "Included in Ultra"
      [] event.kind = "USAGE_EVENT_KIND_ERRORED_NOT_CHARGED" -> "Errored, Not Charged"
      [] event.kind = "USAGE_EVENT_KIND_ABORTED_NOT_CHARGED" -> "Aborted, Not Charged"
      [] event.kind = "USAGE_EVENT_KIND_USAGE_BASED" -> "Usage Based"
      [] event.kind = "USAGE_EVENT_KIND_USER_API_KEY" -> "User API Key"
      [] OTHER -> "Unknown"

\* costInfo.usageBasedCosts, in cents: parseFloat of a string that is neither empty,
\* missing nor '-' (lines 552-554)
UsageBasedCosts(event) ==
    IF event.usageBasedCosts # undefined /\ event.usageBasedCosts # <<"-">>
    THEN parseFloat(event.usageBasedCosts)
    ELSE Num(0)

\* The chain with the metered amount tested before the kind
DisplayCostMeteredFirst(event) ==
    LET totalCents == IF event.tokenUsage # undefined THEN event.tokenUsage[1].totalCents ELSE 0
    IN  IF totalCents > 0 THEN totalCents
        ELSE IF event.kind \in IncludedKinds THEN 0
        ELSE IF event.kind \in NotChargedKinds THEN 0
        ELSE IF JsGt(UsageBasedCosts(event), Num(0)) THEN UsageBasedCosts(event)[1]
        ELSE IF event.requestsCosts > 0 THEN event.requestsCosts * 100
        ELSE 0

\* costInfo.displayCost, in cents
DisplayCost(event) ==
    LET totalCents == IF event.tokenUsage # undefined THEN event.tokenUsage[1].totalCents ELSE 0
    IN  IF event.kind \in IncludedKinds THEN 0
        ELSE IF event.kind \in NotChargedKinds THEN 0
        ELSE IF totalCents > 0 THEN totalCents
        ELSE IF JsGt(UsageBasedCosts(event), Num(0)) THEN UsageBasedCosts(event)[1]
        ELSE IF event.requestsCosts > 0 THEN event.requestsCosts * 100
        ELSE 0

\* parseUsageEvent(event); rnd is Math.random().toString(36).substr(2, 9), t is Date.now().
\* Reading a property of null throws, and the catch returns null.
parseUsageEvent(event, rnd, t) ==
    IF event = null THEN null ELSE
    LET ts == IF event.timestamp # undefined THEN parseInt(event.timestamp) ELSE NaN
        timestamp == IF JsGt(ts, Num(Y2020)) THEN DateObj(ts[1]) ELSE DateObj(t)
        tu == IF event.tokenUsage # undefined
              THEN event.tokenUsage[1]
              ELSE [inputTokens |-> 0, outputTokens |-> 0, cacheReadTokens |-> 0,
                    cacheWriteTokens |-> 0, totalCents |-> 0]
        total == tu.inputTokens + tu.outputTokens + tu.cacheReadTokens + tu.cacheWriteTokens
    IN  [id |-> StringOf(event.timestamp) \o <<"_">> \o rnd,
         date |-> timestamp,
         model |-> IF event.model = "" \/ event.model = "default" THEN "auto" ELSE event.model,
         kind |-> KindSlug(event),
         kindDisplay |-> KindDisplay(event),
         tokens |-> total,
         tokenUsage |-> <<[inputTokens |-> tu.inputTokens, outputTokens |-> tu.outputTokens,
                           cacheReadTokens |-> tu.cacheReadTokens,
                           cacheWriteTokens |-> tu.cacheWriteTokens,
                           totalTokens |-> total]>>,
         cost |-> DisplayCost(event),
         costInfo |-> <<[totalCents |-> tu.totalCents,
                         requestsCosts |-> event.requestsCosts,
                         usageBasedCosts |-> UsageBasedCosts(event),
                         displayCost |-> DisplayCost(event),
                         originalCost |-> tu.totalCents,
                         discountedCost |-> undefined,
                         discount |-> undefined]>>,
         credits |-> event.requestsCosts,
         source |-> "API"]

\* collectFromAPI's map without its filter
collectFromAPIParseKeepingNull(eventsData, t) ==
    [i \in DOMAIN eventsData |-> parseUsageEvent(eventsData[i][1], eventsData[i][2], t)]

\* eventsData.map(event => this.parseUsageEvent(event)).filter(Boolean), over the
\* fetched records paired with the random suffix of their ids
collectFromAPIParse(eventsData, t) ==
    SelectSeq([i \in DOMAIN eventsData |->
                  parseUsageEvent(eventsData[i][1], eventsData[i][2], t)],
              LAMBDA e : e # null)

\* JSON.parse(JSON.stringify(event)): the date becomes its ISO string
Stringify(e) == [e EXCEPT !.date = toISOString(e.date)]
StringifyAll(s) == [i \in DOMAIN s |-> Stringify(s[i])]

-----------------------------------------------------------------------------
(* Merge/Persistence Engine: pure parts.  A file is <<>> (ENOENT) or
   <<document>>. *)

\* isEventUpdated(existingEvent, newEvent)
FieldsToCompare(e) == <<e.credits, e.tokens, e.cost, e.kind, e.model>>
TokenFields(u) == <<u.inputTokens, u.outputTokens, u.cacheReadTokens, u.cacheWriteTokens>>
CostFields(c) == <<c.originalCost, c.discountedCost, c.discount>>

isEventUpdatedIgnoringCredits(existingEvent, newEvent) ==
    IF SplitFirst(existingEvent.id) # SplitFirst(newEvent.id) THEN FALSE
    ELSE \/ Tail(FieldsToCompare(existingEvent)) # Tail(FieldsToCompare(newEvent))
         \/ /\ existingEvent.tokenUsage # undefined /\ newEvent.tokenUsage # undefined
            /\ TokenFields(existingEvent.tokenUsage[1]) # TokenFields(newEvent.tokenUsage[1])
         \/ /\ existingEvent.costInfo # undefined /\ newEvent.costInfo # undefined
            /\ CostFields(existingEvent.costInfo[1]) # CostFields(newEvent.costInfo[1])

isEventUpdated(existingEvent, newEvent) ==
    IF SplitFirst(existingEvent.id) # SplitFirst(newEvent.id) THEN FALSE
    ELSE \/ \E f \in DOMAIN FieldsToCompare(existingEvent) :
                FieldsToCompare(existingEvent)[f] # FieldsToCompare(newEvent)[f]
         \/ /\ existingEvent.tokenUsage # undefined /\ newEvent.tokenUsage # undefined
            /\ \E f \in DOMAIN TokenFields(existingEvent.tokenUsage[1]) :
                TokenFields(existingEvent.tokenUsage[1])[f] # TokenFields(newEvent.tokenUsage[1])[f]
         \/ /\ existingEvent.costInfo # undefined /\ newEvent.costInfo # undefined
            /\ \E f \in DOMAIN CostFields(existingEvent.costInfo[1]) :
                CostFields(existingEvent.costInfo[1])[f] # CostFields(newEvent.costInfo[1])[f]

\* getActiveEvents(events) at Date.now() = t
getActiveEvents(events, t) ==
    IF Len(events) = 0 THEN <<>>
    ELSE LET checkHours == ConfigGet("ACTIVE_EVENTS_CHECK_HOURS")
             checkMs == JsMul(checkHours, Num(MsPerHour))
             cutoffTime == JsSub(Num(t), checkMs)
             timeFilteredEvents ==
                 SelectSeq(events, LAMBDA event : JsGe(Num(TimeOf(event.date)), cutoffTime))
             maxCount == ConfigGet("ACTIVE_EVENTS_MAX_COUNT")
         IN  IF JsGt(Num(Len(timeFilteredEvents)), maxCount)
             THEN SubSeq(timeFilteredEvents, 1, maxCount[1])
             ELSE timeFilteredEvents

\* Array.from(new Map(newData.map(event => [event.id, event])).values()):
\* one entry per id, at the position of its first occurrence, holding its last value
RECURSIVE MapValuesFrom(_, _)
MapValuesFrom(s, i) ==
    IF i > Len(s) THEN <<>>
    ELSE IF \E j \in 1..(i - 1) : s[j].id = s[i].id THEN MapValuesFrom(s, i + 1)
    ELSE LET k == CHOOSE k \in i..Len(s) :
                      s[k].id = s[i].id /\ \A m \in (k + 1)..Len(s) : s[m].id # s[i].id
         IN  <<s[k]>> \o MapValuesFrom(s, i + 1)

MapValues(s) == MapValuesFrom(s, 1)

\* events.findIndex(e => e.id === id), 0 for -1
FindIndex(events, id) ==
    IF \E i \in DOMAIN events : events[i].id = id
    THEN CHOOSE i \in DOMAIN events : events[i].id = id /\ \A j \in 1..(i - 1) : events[j].id # id
    ELSE 0

\* Step 1 of the incremental merge: the loop over the active events, from the i-th on
RECURSIVE UpdatePass(_, _, _, _)
UpdatePass(events, activeEvents, values, i) ==
    IF i > Len(activeEvents) THEN [events |-> events, updatedEvents |-> 0]
    ELSE LET activeEvent == activeEvents[i]
             activeTimestamp == SplitFirst(activeEvent.id)
             found == SelectSeq(values, LAMBDA event : startsWith(event.id, activeTimestamp))
             updated == found # <<>> /\ isEventUpdated(activeEvent, found[1])
             eventIndex == FindIndex(events, activeEvent.id)
             replaced == IF updated /\ eventIndex # 0
                         THEN [events EXCEPT ![eventIndex] = found[1]]
                         ELSE events
             rest == UpdatePass(replaced, activeEvents, values, i + 1)
         IN  [events |-> rest.events,
              updatedEvents |-> rest.updatedEvents + (IF updated THEN 1 ELSE 0)]

AdditionPassByIdOnly(events, newData) ==
    LET existingIds == {events[i].id : i \in DOMAIN events}
    IN  SelectSeq(newData, LAMBDA newEvent : newEvent.id \notin existingIds)

\* Step 2 of the incremental merge: the incoming events that are new
AdditionPass(events, newData) ==
    LET existingIds == {events[i].id : i \in DOMAIN events}
        existingTimestamps == {SplitFirst(events[i].id) : i \in DOMAIN events}
    IN  SelectSeq(newData, LAMBDA newEvent :
            newEvent.id \notin existingIds /\ SplitFirst(newEvent.id) \notin existingTimestamps)

\* The document saveUsageData(data, isIncremental) writes over `file` at time t
saveUsageDataAlwaysNewest(data, isIncremental, file, t) ==
    LET existingData == IF isIncremental THEN file ELSE <<>>
    IN  [timestamp |-> t,
         lastSyncDate |-> IF Len(data) > 0
                          THEN NumToString(TimeOf(SortByDateDesc(data)[1].date))
                          ELSE NumToString(t),
         totalEvents |-> Len(data),
         syncMetadata |->
            [lastSuccessfulSync |-> t,
             adaptivePageSize |-> IF existingData # <<>>
                                  THEN existingData[1].syncMetadata.adaptivePageSize
                                  ELSE 500,
             syncStrategy |-> IF isIncremental THEN "incremental" ELSE "full"],
         events |-> StringifyAll(data)]

saveUsageDataAlwaysNow(data, isIncremental, file, t) ==
    LET existingData == IF isIncremental THEN file ELSE <<>>
    IN  [timestamp |-> t,
         lastSyncDate |-> NumToString(t),
         totalEvents |-> Len(data),
         syncMetadata |->
            [lastSuccessfulSync |-> t,
             adaptivePageSize |-> IF existingData # <<>>
                                  THEN existingData[1].syncMetadata.adaptivePageSize
                                  ELSE 500,
             syncStrategy |-> IF isIncremental THEN "incremental" ELSE "full"],
         events |-> StringifyAll(data)]

saveUsageData(data, isIncremental, file, t) ==
    LET existingData == IF isIncremental THEN file ELSE <<>>
        syncDate == IF isIncremental THEN NumToString(t)
                    ELSE IF Len(data) > 0
                         THEN NumToString(TimeOf(SortByDateDesc(data)[1].date))
                         ELSE NumToString(t)
    IN  [timestamp |-> t,
         lastSyncDate |-> syncDate,
         totalEvents |-> Len(data),
         syncMetadata |->
            [lastSuccessfulSync |-> t,
             adaptivePageSize |-> IF existingData # <<>>
                                  THEN existingData[1].syncMetadata.adaptivePageSize
                                  ELSE 500,
             syncStrategy |-> IF isIncremental THEN "incremental" ELSE "full"],
         events |-> StringifyAll(data)]

mergeUsageDataDroppingStored(newData, isIncremental, file, t) ==
    IF file = <<>> \/ ~isIncremental
    THEN [wrote |-> TRUE, doc |-> saveUsageData(newData, isIncremental, file, t)]
    ELSE LET existingData == file[1]
             newEvents == AdditionPass(existingData.events, newData)
         IN  IF Len(newEvents) = 0
             THEN [wrote |-> FALSE, doc |-> existingData]
             ELSE [wrote |-> TRUE, doc |-> saveUsageData(SortByDateDesc(newEvents), TRUE, file, t)]

mergeUsageDataAlwaysWriting(newData, isIncremental, file, t) ==
    IF file = <<>> \/ ~isIncremental
    THEN [wrote |-> TRUE, doc |-> saveUsageData(newData, isIncremental, file, t)]
    ELSE LET newEvents == AdditionPass(file[1].events, newData)
         IN  [wrote |-> TRUE,
              doc |-> saveUsageData(SortByDateDesc(newEvents \o file[1].events), TRUE, file, t)]

\* mergeUsageData(newData, isIncremental) over `file` at time t:
\* whether it writes, and the document it writes
mergeUsageData(newData, isIncremental, file, t) ==
    IF file = <<>> \/ ~isIncremental
    THEN [wrote |-> TRUE, doc |-> saveUsageData(newData, isIncremental, file, t)]
    ELSE LET existingData == file[1]
             activeEvents == getActiveEvents(existingData.events, t)
             pass == UpdatePass(existingData.events, activeEvents, MapValues(newData), 1)
             newEvents == AdditionPass(pass.events, newData)
             mergedEvents == SortByDateDesc(newEvents \o pass.events)
         IN  IF Len(newEvents) = 0 /\ pass.updatedEvents = 0
             THEN [wrote |-> FALSE, doc |-> existingData]
             ELSE [wrote |-> TRUE, doc |-> saveUsageData(mergedEvents, TRUE, file, t)]

-----------------------------------------------------------------------------
(* Statistics Aggregator *)

RECURSIVE SumSeq(_)
SumSeq(s) == IF s = <<>> THEN 0 ELSE Head(s) + SumSeq(Tail(s))

\* eventCost of calculateStats's loop
EventCost(event) ==
    IF event.costInfo # undefined /\ event.costInfo[1].originalCost # 0
    THEN event.costInfo[1].originalCost
    ELSE event.cost

\* The charge test that lets every kind through
ChargedWhateverKind(event) == event.kind = event.kind

Charged(event) ==
    event.kind # "errored_not_charged" /\ event.kind # "USAGE_EVENT_KIND_ERRORED_NOT_CHARGED"

\* new Date(event.date).toISOString().split('T')[0]: the UTC day of the event
UtcDay(date) == TimeOf(date) \div (24 * MsPerHour)

\* The entry of recentEvents made from an event; no record of the model carries maxMode
RecentEvent(event) ==
    [id |-> event.id, date |-> event.date, model |-> event.model, kind |-> event.kind,
     kindDisplay |-> event.kindDisplay, tokens |-> event.tokens, cost |-> event.cost,
     tokenUsage |-> event.tokenUsage, costInfo |-> event.costInfo,
     credits |-> event.credits, maxMode |-> FALSE]

\* .map(event => ({...})) over the ten most recent events
RECURSIVE RecentEvents(_)
RecentEvents(events) ==
    IF events = <<>> THEN <<>>
    ELSE <<RecentEvent(Head(events))>> \o RecentEvents(Tail(events))

\* calculateStats(data) at time t
calculateStats(data, t) ==
    LET Of(sel(_)) == SelectSeq(data, sel)
        SumOf(s, F(_)) == SumSeq([i \in DOMAIN s |-> F(s[i])])
        Tokens(e) == e.tokens
        Credits(e) == e.credits
        ChargedCost(e) == IF Charged(e) THEN EventCost(e) ELSE 0
    IN  [timestamp |-> t,
         totalEvents |-> Len(data),
         totalTokens |-> SumOf(data, Tokens),
         totalCost |-> SumOf(data, ChargedCost),
         estimatedCost |-> SumOf(data, EventCost),
         byModel |-> [m \in {data[i].model : i \in DOMAIN data} |->
                        LET InModel(e) == e.model = m
                        IN  [count |-> Len(Of(InModel)),
                             tokens |-> SumOf(Of(InModel), Tokens),
                             cost |-> SumOf(Of(InModel), ChargedCost),
                             credits |-> SumOf(Of(InModel), Credits)]],
         byKind |-> [k \in {data[i].kind : i \in DOMAIN data} |->
                        LET InKind(e) == e.kind = k
                        IN  [count |-> Len(Of(InKind)),
                             tokens |-> SumOf(Of(InKind), Tokens),
                             cost |-> SumOf(Of(InKind), EventCost),
                             credits |-> SumOf(Of(InKind), Credits)]],
         byDate |-> [d \in {UtcDay(data[i].date) : i \in DOMAIN data} |->
                        LET OnDay(e) == UtcDay(e.date) = d
                        IN  [count |-> Len(Of(OnDay)),
                             tokens |-> SumOf(Of(OnDay), Tokens),
                             cost |-> SumOf(Of(OnDay), EventCost)]],
         recentEvents |-> RecentEvents(SubSeq(SortByDateDesc(data), 1,
                                               IF Len(data) < 10 THEN Len(data) ELSE 10))]

\* updateStats(events) at time t over the stats file `stats`: when computing or writing
\* the statistics throws, the catch logs and the file stays as it was (lines 93-108)
updateStats(events, threw, stats, t) ==
    IF threw THEN stats ELSE <<calculateStats(events, t)>>

\* cleanupOldData(daysToKeep) over `file` at time t: whether it writes, and the document
cleanupOldData(daysToKeep, file, t) ==
    IF file = <<>> \/ Len(file[1].events) = 0
    THEN [wrote |-> FALSE, doc |-> <<>>]
    ELSE LET cutoffDate == t - daysToKeep * 24 * MsPerHour
             filteredEvents ==
                 SelectSeq(file[1].events, LAMBDA event : TimeOf(event.date) >= cutoffDate)
         IN  IF Len(filteredEvents) < Len(file[1].events)
             THEN [wrote |-> TRUE, doc |-> <<saveUsageData(filteredEvents, FALSE, file, t)>>]
             ELSE [wrote |-> FALSE, doc |-> <<>>]

-----------------------------------------------------------------------------
(* The vendor's records and the batches the engine is handed *)

RawEvent(timestamp, requestsCosts) ==
    [timestamp |-> timestamp, kind |-> "USAGE_EVENT_KIND_USAGE_BASED",
     customSubscriptionName |-> "", model |-> "default", tokenUsage |-> undefined,
     requestsCosts |-> requestsCosts, usageBasedCosts |-> <<"-">>]

\* What a fetch can deliver: a vendor record and the random suffix its id gets.
\* The record of instant 44 is delivered under three ids, once with its credits changed.
Fetchable ==
    {<<RawEvent(<<"2", "0">>, 0), <<"a">>>>,
     <<RawEvent(<<"4", "4">>, 0), <<"a">>>>,
     <<RawEvent(<<"4", "4">>, 0), <<"b">>>>,
     <<RawEvent(<<"4", "4">>, 1), <<"c">>>>}

\* The normalized events a fetch at time t can deliver
Normalized(t) == {parseUsageEvent(f[1], f[2], t) : f \in Fetchable}

DistinctIds(s) == \A i, j \in DOMAIN s : i # j => s[i].id # s[j].id

\* Batches of normalized events with pairwise-distinct ids
Batches(t) ==
    {b \in UNION {[1..n -> Normalized(t)] : n \in 0..MaxBatch} : DistinctIds(b)}

-----------------------------------------------------------------------------
(* Specification Spec: the persistence engine driven through its public
   operations.  `last` records the last operation and the files before it. *)

NoOp ==
    [op |-> "none", newData |-> <<>>, isIncremental |-> FALSE, pre |-> <<>>,
     preStats |-> <<>>, wrote |-> FALSE, repeat |-> FALSE, at |-> 0]

IdleCycle == [phase |-> "idle"]
NoProbe == [phase |-> "none"]

Init ==
    /\ usageFile = <<>>
    /\ statsFile = <<>>
    /\ now = 48
    /\ last = NoOp
    /\ pc = "idle"
    /\ cycle = IdleCycle
    /\ probe = NoProbe

\* Time passes between operations
Tick ==
    /\ now < 48 + 12 * MaxTicks
    /\ now' = now + 12
    /\ UNCHANGED <<usageFile, statsFile, last, pc, cycle, probe>>

\* await dataStorage.mergeUsageData(newData, isIncremental), the stats rewrite included
MergeUsageData ==
    \E newData \in Batches(now), isIncremental \in BOOLEAN :
        LET r == mergeUsageData(newData, isIncremental, usageFile, now)
        IN  /\ usageFile' = IF r.wrote THEN <<r.doc>> ELSE usageFile
            /\ statsFile' = IF r.wrote THEN <<calculateStats(r.doc.events, now)>> ELSE statsFile
            /\ last' = [op |-> "merge", newData |-> newData, isIncremental |-> isIncremental,
                        pre |-> usageFile, preStats |-> statsFile, wrote |-> r.wrote,
                        repeat |-> /\ last.op = "merge"
                                   /\ last.newData = newData
                                   /\ last.isIncremental = isIncremental,
                        at |-> now]
            /\ UNCHANGED <<now, pc, cycle, probe>>

\* await dataStorage.cleanupOldData(daysToKeep)
CleanupOldData ==
    \E daysToKeep \in {1, 30} :
        LET r == cleanupOldData(daysToKeep, usageFile, now)
        IN  /\ usageFile' = IF r.wrote THEN r.doc ELSE usageFile
            /\ statsFile' = IF r.wrote THEN <<calculateStats(r.doc[1].events, now)>> ELSE statsFile
            /\ last' = [op |-> "cleanup", newData |-> <<>>, isIncremental |-> FALSE,
                        pre |-> usageFile, preStats |-> statsFile, wrote |-> r.wrote,
                        repeat |-> FALSE, at |-> now]
            /\ UNCHANGED <<now, pc, cycle, probe>>

Next == Tick \/ MergeUsageData \/ CleanupOldData

Spec == Init /\ [][Next]_vars

-----------------------------------------------------------------------------
(* Claims about the persistence engine, checked under Spec *)

Prefixes(events) == {SplitFirst(events[i].id) : i \in DOMAIN events}
Ids(events) == {events[i].id : i \in DOMAIN events}
WithPrefix(events, T) == SelectSeq(events, LAMBDA e : SplitFirst(e.id) = T)
SortedNewestFirst(events) ==
    \A i, j \in DOMAIN events : i < j => TimeOf(events[i].date) >= TimeOf(events[j].date)

PreEvents == IF last.pre = <<>> THEN <<>> ELSE last.pre[1].events
PostEvents == IF usageFile = <<>> THEN <<>> ELSE usageFile[1].events
IncrementalOverDataset == last.op = "merge" /\ last.isIncremental /\ last.pre # <<>>
Wholesale == last.op = "merge" /\ (last.pre = <<>> \/ ~last.isIncremental)

\* C1 (as claimed): after an incremental merge over a dataset holding an event of
\* timestamp prefix T, of a batch holding an event whose id starts with T, the dataset
\* holds exactly one event of prefix T, and it is the incoming one whenever the incoming
\* one differs from the stored one in a compared field.
C1_MergeDedup ==
    IncrementalOverDataset =>
        \A T \in Prefixes(PreEvents) :
            \A j \in DOMAIN last.newData :
                startsWith(last.newData[j].id, T) =>
                    /\ Len(WithPrefix(PostEvents, T)) = 1
                    /\ (\E i \in DOMAIN PreEvents :
                            isEventUpdated(PreEvents[i], last.newData[j]))
                       => WithPrefix(PostEvents, T) = <<Stringify(last.newData[j])>>

\* C2 (as claimed): after every dataset write made by mergeUsageData/saveUsageData the
\* persisted events are ordered newest-first.
C2_OrderedAfterWrite ==
    (last.op \in {"merge", "cleanup"} /\ last.wrote) => SortedNewestFirst(PostEvents)

C4_AppendOnly ==
    /\ (last.op = "merge" /\ last.isIncremental) =>
            /\ Prefixes(PreEvents) \subseteq Prefixes(PostEvents)
            /\ Len(PostEvents) >= Len(PreEvents)
    /\ (~(Prefixes(PreEvents) \subseteq Prefixes(PostEvents)) \/ Len(PostEvents) < Len(PreEvents))
            => (last.op = "cleanup" \/ (last.op = "merge" /\ ~last.isIncremental))

\* C4's case: an incremental merge over a non-empty dataset wrote new events.
C4_Witness ==
    /\ IncrementalOverDataset /\ last.wrote
    /\ Len(PreEvents) > 0 /\ Len(PostEvents) > Len(PreEvents)

\* C5 (as claimed): on the wholesale branch, whichever the incremental flag and whether or
\* not a dataset exists, the batch is persisted as the event list and lastSyncDate is the
\* maximum event date of the batch, or the current time for an empty batch.
C5_FullWrite ==
    Wholesale =>
        /\ last.wrote
        /\ PostEvents = StringifyAll(last.newData)
        /\ usageFile[1].lastSyncDate =
              IF last.newData # <<>>
              THEN NumToString(TimeOf(SortByDateDesc(last.newData)[1].date))
              ELSE NumToString(last.at)

\* C6: every incremental merge that writes sets lastSyncDate to the time of the write.
C6_IncrementalWatermark ==
    (last.op = "merge" /\ last.isIncremental /\ last.wrote) =>
        usageFile[1].lastSyncDate = NumToString(last.at)

\* C6's case: an incremental merge over a dataset wrote, at a time that is not the newest
\* event's date.
C6_Witness ==
    /\ IncrementalOverDataset /\ last.wrote
    /\ TimeOf(PostEvents[1].date) # last.at
    /\ usageFile[1].lastSyncDate # NumToString(TimeOf(PostEvents[1].date))

NothingNewOrUpdated ==
    LET pass == UpdatePass(PreEvents, getActiveEvents(PreEvents, last.at),
                           MapValues(last.newData), 1)
    IN  pass.updatedEvents = 0 /\ AdditionPass(pass.events, last.newData) = <<>>

\* C7: an incremental merge that finds neither a new nor an updated event writes nothing:
\* the dataset document and the stats document are what they were.
C7_NoOpMerge ==
    (IncrementalOverDataset /\ NothingNewOrUpdated) =>
        /\ ~last.wrote
        /\ usageFile = last.pre
        /\ statsFile = last.preStats

\* C7's case: an incremental merge of a non-empty batch, later than the dataset was
\* written, found nothing new or updated.
C7_Witness ==
    /\ IncrementalOverDataset /\ NothingNewOrUpdated
    /\ last.newData # <<>>
    /\ last.at > last.pre[1].timestamp

\* C9 (as claimed): the same full-sync batch applied twice in a row leaves the number of
\* events and lastSyncDate as they were after the first application, for every batch.
C9_FullSyncIdempotent ==
    (last.op = "merge" /\ ~last.isIncremental /\ last.repeat) =>
        /\ Len(PostEvents) = Len(PreEvents)
        /\ usageFile[1].lastSyncDate = last.pre[1].lastSyncDate

\* C9 (amended): the same holds for every non-empty batch.
C9_FullSyncIdempotentNonEmpty ==
    (last.op = "merge" /\ ~last.isIncremental /\ last.repeat /\ last.newData # <<>>) =>
        /\ Len(PostEvents) = Len(PreEvents)
        /\ usageFile[1].lastSyncDate = last.pre[1].lastSyncDate

\* C9's case: a non-empty full-sync batch was applied a second time, later than the first.
C9_Witness ==
    /\ last.op = "merge" /\ ~last.isIncremental /\ last.repeat /\ last.newData # <<>>
    /\ last.at > last.pre[1].timestamp

-----------------------------------------------------------------------------
(* Specification SpecUpd: isEventUpdated applied to pairs of canonical events *)

ProbeEvent(id, f) ==
    [id |-> id, date |-> toISOString(DateObj(44)), source |-> "API",
     credits |-> f[1], tokens |-> f[2], cost |-> f[3],
     kind |-> IF f[4] = 0 THEN "usage_based" ELSE "included_pro",
     model |-> IF f[5] = 0 THEN "auto" ELSE "gpt-5",
     tokenUsage |-> <<[inputTokens |-> f[6], outputTokens |-> f[7],
                       cacheReadTokens |-> f[8], cacheWriteTokens |-> f[9],
                       totalTokens |-> f[2]]>>,
     costInfo |-> <<[totalCents |-> f[10], requestsCosts |-> f[1], usageBasedCosts |-> Num(0),
                     displayCost |-> f[3], originalCost |-> f[10],
                     discountedCost |-> IF f[11] = 0 THEN undefined ELSE <<f[11]>>,
                     discount |-> IF f[12] = 0 THEN undefined ELSE <<f[12]>>]>>]

FieldVectors == [1..12 -> {0, 1}]
ProbeIds == {<<"4", "4", "_", "a">>, <<"4", "4", "_", "b">>, <<"2", "0", "_", "a">>}

InitUpd ==
    /\ usageFile = <<>>
    /\ statsFile = <<>>
    /\ now = 48
    /\ last = NoOp
    /\ pc = "idle"
    /\ cycle = IdleCycle
    /\ \E f \in FieldVectors, id \in ProbeIds, older \in {0, 1} :
           probe = [phase |-> "input",
                    existingEvent |-> ProbeEvent(<<"4", "4", "_", "a">>,
                                                 [i \in 1..12 |-> IF i = 1 THEN older ELSE 0]),
                    newEvent |-> ProbeEvent(id, f),
                    result |-> FALSE]

\* this.isEventUpdated(activeEvent, updatedEvent)
Compare ==
    /\ probe.phase = "input"
    /\ probe' = [probe EXCEPT !.phase = "done",
                              !.result = isEventUpdated(probe.existingEvent, probe.newEvent)]
    /\ UNCHANGED <<usageFile, statsFile, now, last, pc, cycle>>

NextUpd == Compare

SpecUpd == InitUpd /\ [][NextUpd]_vars

ComparedFields(e) ==
    <<e.credits, e.tokens, e.cost, e.kind, e.model,
      e.tokenUsage[1].inputTokens, e.tokenUsage[1].outputTokens,
      e.tokenUsage[1].cacheReadTokens, e.tokenUsage[1].cacheWriteTokens,
      e.costInfo[1].originalCost, e.costInfo[1].discountedCost, e.costInfo[1].discount>>

\* C8: for two events of the same timestamp prefix, isEventUpdated is true exactly when
\* they differ in credits, tokens, cost, kind, model, one of the four tokenUsage
\* sub-fields or one of costInfo.originalCost/discountedCost/discount.
C8_UpdateDetection ==
    (/\ probe.phase = "done"
     /\ SplitFirst(probe.existingEvent.id) = SplitFirst(probe.newEvent.id)) =>
        (probe.result <=> ComparedFields(probe.existingEvent) # ComparedFields(probe.newEvent))

\* C8's case: two events of one prefix and different ids that differ in credits alone
\* were compared and flagged.
C8_Witness ==
    /\ probe.phase = "done" /\ probe.result
    /\ probe.existingEvent.id # probe.newEvent.id
    /\ SplitFirst(probe.existingEvent.id) = SplitFirst(probe.newEvent.id)
    /\ probe.existingEvent.credits # probe.newEvent.credits
    /\ Tail(ComparedFields(probe.existingEvent)) = Tail(ComparedFields(probe.newEvent))

-----------------------------------------------------------------------------
(* Collector: sync metadata, the fetch loop and the adaptive page size *)

\* A dataset file whose content JSON.parse rejects (empty, truncated by an interrupted write)
UnparsableFile == <<[unparsable |-> TRUE]>>

\* loadUsageData(): null when the file is absent (ENOENT), the parsed document, and
\* any other failure is logged and thrown again (lines 79-91)
loadUsageData(file) ==
    [threw |-> file = UnparsableFile,
     data |-> IF file = <<>> \/ file = UnparsableFile THEN null ELSE file[1]]

\* getSyncMetadata(): the defaults when loadUsageData() yields null, and when it throws
getSyncMetadata(file) ==
    IF file = <<>> \/ loadUsageData(file).threw
    THEN [lastSyncDate |-> <<>>, adaptivePageSize |-> DefaultPageSize, syncStrategy |-> "full"]
    ELSE [lastSyncDate |-> file[1].lastSyncDate,
          adaptivePageSize |-> IF file[1].syncMetadata.adaptivePageSize # 0
                               THEN file[1].syncMetadata.adaptivePageSize
                               ELSE DefaultPageSize,
          syncStrategy |-> file[1].syncMetadata.syncStrategy]

\* Math.round(currentPageSize * 0.7) in IEEE doubles: (7c + 5) div 10, one less
\* where the product falls just below the half
RoundsBelowHalf ==
    {45, 85, 165, 175, 325, 335, 345, 355, 365, 645, 655, 665, 675, 685, 695, 705, 715, 725}

Round07(c) == IF c \in RoundsBelowHalf THEN (7 * c + 5) \div 10 - 1 ELSE (7 * c + 5) \div 10

\* updateAdaptivePageSize without Math.min(..., 1000) and Math.max(..., 100)
updateAdaptivePageSizeUnclamped(responseTime, eventsCount, file) ==
    IF file = <<>> \/ loadUsageData(file).threw THEN file
    ELSE LET currentPageSize == file[1].syncMetadata.adaptivePageSize
             newPageSize ==
                 IF responseTime < 1000 /\ eventsCount = currentPageSize
                 THEN (3 * currentPageSize + 1) \div 2
                 ELSE IF responseTime > 3000 THEN Round07(currentPageSize)
                      ELSE currentPageSize
         IN  <<[file[1] EXCEPT !.syncMetadata.adaptivePageSize = newPageSize]>>

\* updateAdaptivePageSize(responseTime, eventsCount): the dataset file afterwards; a
\* failing load is caught and logged (lines 417-419)
updateAdaptivePageSize(responseTime, eventsCount, file) ==
    IF file = <<>> \/ loadUsageData(file).threw THEN file
    ELSE LET currentPageSize == IF file[1].syncMetadata.adaptivePageSize # 0
                                THEN file[1].syncMetadata.adaptivePageSize
                                ELSE DefaultPageSize
             newPageSize ==
                 IF responseTime < 1000 /\ eventsCount = currentPageSize
                 THEN IF 3 * currentPageSize < 2000 THEN (3 * currentPageSize + 1) \div 2 ELSE 1000
                 ELSE IF responseTime > 3000
                      THEN IF 7 * currentPageSize > 1000 THEN Round07(currentPageSize) ELSE 100
                      ELSE currentPageSize
         IN  IF newPageSize # currentPageSize
             THEN <<[file[1] EXCEPT !.syncMetadata.adaptivePageSize = newPageSize]>>
             ELSE file

\* The strategy that is always full
collectIsIncrementalNever(syncMetadata) == FALSE

\* collectUsageData's strategy: syncMetadata.lastSyncDate && lastSyncDate !== '0'
collectIsIncremental(syncMetadata) ==
    syncMetadata.lastSyncDate # <<>> /\ syncMetadata.lastSyncDate # <<"0">>

\* new Date(n).getTime().toString(), "NaN" for an invalid date
TimeString(n) == IF n = NaN THEN <<"N", "a", "N">> ELSE NumToString(n[1])

\* fetchAllEvents: the body of the request for page pageNum, issued at time t
fetchRequest(syncMetadata, pageNum, t) ==
    LET isIncremental == syncMetadata.lastSyncDate # <<>>
        pageSize == IF syncMetadata.adaptivePageSize # 0
                    THEN syncMetadata.adaptivePageSize ELSE DefaultPageSize
    IN  [incremental |-> isIncremental,
         startDate |-> IF isIncremental THEN TimeString(parseInt(syncMetadata.lastSyncDate))
                       ELSE TimeString(Num(0)),
         endDate |-> TimeString(Num(t)),
         page |-> pageNum,
         pageSize |-> pageSize]

\* One iteration of fetchAllEvents's while loop over its locals (lines 116-218):
\* the vendor answers with a page, or page.evaluate rejects and the catch ends the loop
fetchStepLosingPages(loop, outcome) ==
    IF outcome.kind = "rejected" THEN [loop EXCEPT !.hasMore = FALSE, !.allEvents = <<>>]
    ELSE IF Len(outcome.events) = 0 THEN [loop EXCEPT !.hasMore = FALSE]
    ELSE [loop EXCEPT !.allEvents = @ \o outcome.events, !.pageNum = @ + 1]

fetchStepIgnoringEmptyPage(loop, outcome) ==
    IF outcome.kind = "rejected" THEN [loop EXCEPT !.hasMore = FALSE]
    ELSE IF Len(outcome.events) = 0 THEN loop
    ELSE [loop EXCEPT !.allEvents = @ \o outcome.events, !.pageNum = @ + 1]

fetchStep(loop, outcome) ==
    IF outcome.kind = "rejected" THEN [loop EXCEPT !.hasMore = FALSE]
    ELSE IF Len(outcome.events) = 0 THEN [loop EXCEPT !.hasMore = FALSE]
    ELSE [loop EXCEPT !.allEvents = @ \o outcome.events, !.pageNum = @ + 1]

\* The sub-step of collectActiveEventsForUpdates that fails in a run, if one does:
\* loading the dataset, selecting the active events, obtaining the cookies, the API
\* call, filtering the reply, parsing it
ReconcilerFailures == {"none", "load", "select", "cookies", "api", "filter", "parse"}

\* The reconciler without its catch blocks: a failing sub-step throws to the caller
collectActiveEventsForUpdatesRethrowing(file, response, failure, t) ==
    LET activeEvents == IF file = <<>> THEN <<>> ELSE getActiveEvents(file[1].events, t)
        relevantEvents ==
            SelectSeq(response, LAMBDA r :
                \E i \in DOMAIN activeEvents :
                    startsWith(activeEvents[i].id, StringOf(r[1].timestamp)))
        reached ==
            IF failure = "load" THEN "load"
            ELSE IF file = <<>> THEN "none"
            ELSE IF failure = "select" THEN "select"
            ELSE IF Len(activeEvents) = 0 THEN "none"
            ELSE IF failure \in {"cookies", "api"} THEN failure
            ELSE IF Len(response) = 0 THEN "none"
            ELSE failure
    IN  [events |-> IF reached = "none" /\ file # <<>> /\ Len(activeEvents) > 0
                    THEN [i \in DOMAIN relevantEvents |->
                             parseUsageEvent(relevantEvents[i][1], relevantEvents[i][2], t)]
                    ELSE <<>>,
         threw |-> reached # "none"]

\* collectActiveEventsForUpdates() given the vendor's reply to its request and the
\* sub-step that fails; every early return and every catch returns [] (lines 224-432)
collectActiveEventsForUpdates(file, response, failure, t) ==
    LET activeEvents == IF file = <<>> THEN <<>> ELSE getActiveEvents(file[1].events, t)
        relevantEvents ==
            SelectSeq(response, LAMBDA r :
                \E i \in DOMAIN activeEvents :
                    startsWith(activeEvents[i].id, StringOf(r[1].timestamp)))
        events ==
            IF failure = "load" THEN <<>>
            ELSE IF file = <<>> THEN <<>>
            ELSE IF failure = "select" THEN <<>>
            ELSE IF Len(activeEvents) = 0 THEN <<>>
            ELSE IF failure \in {"cookies", "api"} THEN <<>>
            ELSE IF Len(response) = 0 THEN <<>>
            ELSE IF failure \in {"filter", "parse"} THEN <<>>
            ELSE [i \in DOMAIN relevantEvents |->
                     parseUsageEvent(relevantEvents[i][1], relevantEvents[i][2], t)]
    IN  [events |-> events, threw |-> FALSE]

reconcilerTriggeredWheneverEmpty(isIncremental, data) == Len(data) = 0

\* collectUsageData: if (isIncremental && data.length === 0) (line 43)
reconcilerTriggered(isIncremental, data) == isIncremental /\ Len(data) = 0

-----------------------------------------------------------------------------
(* Specification SpecCycle: collection cycles (collectUsageData) over a
   dataset file.  The file a cycle finds is absent, or a dataset whose
   lastSyncDate is a watermark, unset, or the "0" that collectUsageData tests
   for; its adaptive page size is the default or one a slow page left. *)

ResponseTimes == {500, 2000, 4000}

StoredDatasets ==
    {[saveUsageData(<<parseUsageEvent(RawEvent(<<"4", "4">>, 0), <<"a">>, 24)>>, FALSE, <<>>, 24)
        EXCEPT !.lastSyncDate = w, !.syncMetadata.adaptivePageSize = p] :
     w \in {<<>>, <<"0">>, <<"4", "4">>}, p \in {DefaultPageSize, Round07(DefaultPageSize)}}

\* One page of the vendor's reply: empty, or one record
VendorPages == {<<>>} \cup {<<f>> : f \in Fetchable}

InitCycle ==
    /\ usageFile \in {<<>>} \cup {<<d>> : d \in StoredDatasets}
    /\ statsFile = <<>>
    /\ now = 48
    /\ last = NoOp
    /\ pc = "idle"
    /\ cycle = [phase |-> "idle", n |-> 0]
    /\ probe = NoProbe

\* collectUsageData up to the strategy decision (lines 13-36)
StartCollection ==
    /\ pc = "idle"
    /\ cycle.n < MaxCycles
    /\ LET syncMetadata == getSyncMetadata(usageFile)
       IN  cycle' = [phase |-> "running",
                     n |-> cycle.n + 1,
                     found |-> usageFile,
                     syncMetadata |-> syncMetadata,
                     isIncremental |-> collectIsIncremental(syncMetadata),
                     pageNum |-> 1,
                     allEvents |-> <<>>,
                     requests |-> <<>>,
                     pages |-> <<>>,
                     failedAt |-> 0,
                     apiThrew |-> FALSE,
                     apiData |-> <<>>,
                     reconciler |-> "skipped",
                     data |-> <<>>,
                     merged |-> <<>>,
                     error |-> "none"]
    /\ pc' = "fetch"
    /\ UNCHANGED <<usageFile, statsFile, now, last, probe>>

\* One iteration of fetchAllEvents's loop whose request is answered
FetchPage ==
    /\ pc = "fetch"
    /\ \E events \in VendorPages, responseTime \in ResponseTimes :
          /\ Len(events) > 0 =>
                /\ cycle.pageNum <= MaxPages
                /\ \A i \in DOMAIN cycle.allEvents : cycle.allEvents[i] # events[1]
          /\ usageFile' = updateAdaptivePageSize(responseTime, Len(events), usageFile)
          /\ LET loop == fetchStep([allEvents |-> cycle.allEvents, pageNum |-> cycle.pageNum,
                                    hasMore |-> TRUE],
                                   [kind |-> "page", events |-> events])
             IN  /\ cycle' = [cycle EXCEPT
                                 !.requests = Append(@, fetchRequest(cycle.syncMetadata,
                                                                     cycle.pageNum, now)),
                                 !.pages = Append(@, events),
                                 !.allEvents = loop.allEvents,
                                 !.pageNum = loop.pageNum]
                 /\ pc' = IF loop.hasMore THEN "fetch" ELSE "parse"
    /\ UNCHANGED <<statsFile, now, last, probe>>

\* One iteration whose page.evaluate rejects: the loop ends with what was accumulated
FetchFailed ==
    /\ pc = "fetch"
    /\ LET loop == fetchStep([allEvents |-> cycle.allEvents, pageNum |-> cycle.pageNum,
                              hasMore |-> TRUE],
                             [kind |-> "rejected"])
       IN  /\ cycle' = [cycle EXCEPT
                           !.requests = Append(@, fetchRequest(cycle.syncMetadata,
                                                               cycle.pageNum, now)),
                           !.failedAt = cycle.pageNum,
                           !.allEvents = loop.allEvents,
                           !.pageNum = loop.pageNum]
           /\ pc' = IF loop.hasMore THEN "fetch" ELSE "parse"
    /\ UNCHANGED <<usageFile, statsFile, now, last, probe>>

\* collectFromAPI fails before fetchAllEvents is called (no page, network never idle,
\* no cookies): its catch returns [] (lines 99-102)
ApiUnavailable ==
    /\ pc = "fetch"
    /\ cycle.requests = <<>>
    /\ cycle' = [cycle EXCEPT !.apiThrew = TRUE]
    /\ pc' = "parse"
    /\ UNCHANGED <<usageFile, statsFile, now, last, probe>>

\* collectFromAPI's parse, and the active-events check of an empty incremental fetch
ParseFetched ==
    /\ pc = "parse"
    /\ \E response \in VendorPages, failure \in ReconcilerFailures :
          LET parsedData == collectFromAPIParse(cycle.allEvents, now)
              reconciles == reconcilerTriggered(cycle.isIncremental, parsedData)
              r == collectActiveEventsForUpdates(usageFile, response, failure, now)
          IN  IF reconciles /\ r.threw
              THEN /\ cycle' = [cycle EXCEPT !.apiData = parsedData,
                                             !.reconciler = failure,
                                             !.phase = "failed",
                                             !.error = "collectActiveEventsForUpdates"]
                   /\ pc' = "idle"
              ELSE /\ cycle' = [cycle EXCEPT
                                    !.apiData = parsedData,
                                    !.reconciler = IF reconciles THEN failure ELSE "skipped",
                                    !.data = IF reconciles THEN r.events ELSE parsedData]
                   /\ pc' = "collected"
    /\ UNCHANGED <<usageFile, statsFile, now, last, probe>>

\* No data: collectUsageData returns what collectFromDOM yields, nothing is stored
ReturnDOM ==
    /\ pc = "collected"
    /\ Len(cycle.data) = 0
    /\ cycle' = [cycle EXCEPT !.phase = "done"]
    /\ pc' = "idle"
    /\ UNCHANGED <<usageFile, statsFile, now, last, probe>>

\* await this.dataStorage.mergeUsageData(data, isIncremental)
MergeCollected ==
    /\ pc = "collected"
    /\ Len(cycle.data) > 0
    /\ LET r == mergeUsageData(cycle.data, cycle.isIncremental, usageFile, now)
       IN  /\ usageFile' = IF r.wrote THEN <<r.doc>> ELSE usageFile
           /\ statsFile' = IF r.wrote THEN <<calculateStats(r.doc.events, now)>> ELSE statsFile
    /\ cycle' = [cycle EXCEPT !.phase = "done", !.merged = <<cycle.isIncremental>>]
    /\ pc' = "idle"
    /\ UNCHANGED <<now, last, probe>>

NextCycle ==
    \/ Tick
    \/ StartCollection
    \/ FetchPage
    \/ FetchFailed
    \/ ApiUnavailable
    \/ ParseFetched
    \/ ReturnDOM
    \/ MergeCollected

SpecCycle == InitCycle /\ [][NextCycle]_vars

FullPlanned ==
    \/ cycle.found = <<>>
    \/ cycle.found[1].lastSyncDate = <<>>
    \/ cycle.found[1].lastSyncDate = <<"0">>

RECURSIVE Flatten(_)
Flatten(seqs) == IF seqs = <<>> THEN <<>> ELSE Head(seqs) \o Flatten(Tail(seqs))

FetchEnded == cycle.phase # "idle" /\ pc # "fetch"

\* C11: a page failure on page n ends the pagination with exactly the events of pages
\* 1..n-1; no exception of the fetch reaches collectUsageData; collectFromAPI yields the
\* empty list when the failure precedes every page.
C11_FetchFailureContained ==
    FetchEnded =>
        /\ cycle.failedAt > 0 =>
              /\ Len(cycle.pages) = cycle.failedAt - 1
              /\ cycle.allEvents = Flatten(cycle.pages)
              /\ Len(cycle.requests) = cycle.failedAt
        /\ cycle.error = "none"
        /\ (pc # "parse" /\ (cycle.failedAt = 1 \/ cycle.apiThrew)) => cycle.apiData = <<>>
        /\ (pc # "parse" /\ cycle.failedAt > 1) =>
              Len(cycle.apiData) = cycle.failedAt - 1

\* C11's case: the request for page 2 failed after page 1 was obtained, and the cycle
\* went on with the event of page 1.
C11_Witness ==
    /\ pc = "collected"
    /\ cycle.failedAt = 2
    /\ Len(cycle.apiData) = 1
    /\ cycle.data = cycle.apiData

-----------------------------------------------------------------------------
(* Specification SpecPageSize: updateAdaptivePageSize called any number of
   times, with any latency and any event count, on a dataset whose page size
   starts anywhere in [100, 1000].  `cycle` records the last call. *)

MinPageSize == 100
MaxPageSize == 1000

DatasetWithPageSize(p) ==
    [saveUsageData(<<parseUsageEvent(RawEvent(<<"4", "4">>, 0), <<"a">>, 24)>>, FALSE, <<>>, 24)
        EXCEPT !.syncMetadata.adaptivePageSize = p]

PersistedPageSize == usageFile[1].syncMetadata.adaptivePageSize

\* Latencies on both sides of the 1000 ms and 3000 ms thresholds
Latencies == {0, 999, 1000, 2000, 3000, 3001}

InitPageSize ==
    /\ usageFile \in {<<DatasetWithPageSize(p)>> : p \in MinPageSize..MaxPageSize}
    /\ statsFile = <<>>
    /\ now = 48
    /\ last = NoOp
    /\ pc = "idle"
    /\ cycle = [phase |-> "pages", before |-> 0, responseTime |-> 0, eventsCount |-> 0]
    /\ probe = NoProbe

\* await this.dataStorage.updateAdaptivePageSize(responseTime, events.length)
UpdatePageSize ==
    /\ cycle.phase = "pages"
    /\ \E responseTime \in Latencies,
          eventsCount \in {0, PersistedPageSize - 1, PersistedPageSize, DefaultPageSize} :
          /\ usageFile' = updateAdaptivePageSize(responseTime, eventsCount, usageFile)
          /\ cycle' = [phase |-> "pages", before |-> PersistedPageSize,
                       responseTime |-> responseTime, eventsCount |-> eventsCount]
    /\ UNCHANGED <<statsFile, now, last, pc, probe>>

NextPageSize == UpdatePageSize

SpecPageSize == InitPageSize /\ [][NextPageSize]_vars

\* C12: from a persisted page size in [100, 1000], after any sequence of
\* updateAdaptivePageSize calls the persisted page size is an integer in [100, 1000].
C12_PageSizeBounds == PersistedPageSize \in MinPageSize..MaxPageSize

\* C12's case: a slow page took a page size whose 0.7-fold is below 100 to the floor, or
\* a fast full page took one whose 1.5-fold is above 1000 to the ceiling.
C12_Witness ==
    /\ cycle.before # 0
    /\ \/ /\ cycle.responseTime > 3000 /\ 7 * cycle.before < 10 * MinPageSize
          /\ cycle.before > MinPageSize /\ PersistedPageSize = MinPageSize
       \/ /\ cycle.responseTime < 1000 /\ cycle.eventsCount = cycle.before
          /\ 3 * cycle.before > 2 * MaxPageSize
          /\ cycle.before < MaxPageSize /\ PersistedPageSize = MaxPageSize

-----------------------------------------------------------------------------
(* Specification SpecRun: one fetchAllEvents loop fed an unbroken run of fast
   full pages, or of slow pages.  The loop asks for cycle.pageSize events on
   every page (the constant of line 112, read before the loop); a full page
   holds that many.  The loop goes on as long as pages are not empty. *)

InitRun ==
    /\ usageFile \in {<<DatasetWithPageSize(p)>> : p \in MinPageSize..MaxPageSize}
    /\ statsFile = <<>>
    /\ now = 48
    /\ last = NoOp
    /\ pc = "fetch"
    /\ \E run \in {"fast", "slow"} :
          cycle = [phase |-> "run", run |-> run,
                   pageSize |-> fetchRequest(getSyncMetadata(usageFile), 1, now).pageSize]
    /\ probe = NoProbe

\* A page of cycle.pageSize events answered in less than 1000 ms
FastFullPage ==
    /\ cycle.phase = "run" /\ cycle.run = "fast"
    /\ \E responseTime \in {t \in Latencies : t < 1000} :
          usageFile' = updateAdaptivePageSize(responseTime, cycle.pageSize, usageFile)
    /\ UNCHANGED <<statsFile, now, last, pc, cycle, probe>>

\* A non-empty page answered in more than 3000 ms
SlowPage ==
    /\ cycle.phase = "run" /\ cycle.run = "slow"
    /\ \E responseTime \in {t \in Latencies : t > 3000}, eventsCount \in {1, cycle.pageSize} :
          usageFile' = updateAdaptivePageSize(responseTime, eventsCount, usageFile)
    /\ UNCHANGED <<statsFile, now, last, pc, cycle, probe>>

NextRun == FastFullPage \/ SlowPage

SpecRun == InitRun /\ [][NextRun]_vars /\ WF_vars(FastFullPage) /\ WF_vars(SlowPage)

\* C13 (as claimed): under an unbroken run of fast full pages the persisted page size
\* reaches 1000 and stays there; under an unbroken run of slow pages it reaches 100 and
\* stays there.
C13_PageSizeConverges ==
    <>[](/\ cycle.run = "fast" => PersistedPageSize = MaxPageSize
         /\ cycle.run = "slow" => PersistedPageSize = MinPageSize)

-----------------------------------------------------------------------------
(* C14, under SpecCycle *)

-----------------------------------------------------------------------------
(* Specification SpecParse: the normalizer applied to one vendor record, and
   collectFromAPI's parse applied to that record followed by a well-formed
   one.  The record is null, or an object whose fields are present, missing
   or of a form the normalizer does not expect. *)

VendorKinds ==
    {"USAGE_EVENT_KIND_CUSTOM_SUBSCRIPTION", "USAGE_EVENT_KIND_INCLUDED_IN_PRO",
     "USAGE_EVENT_KIND_INCLUDED_IN_BUSINESS", "USAGE_EVENT_KIND_INCLUDED_IN_PRO_PLUS",
     "USAGE_EVENT_KIND_INCLUDED_IN_ULTRA", "USAGE_EVENT_KIND_ERRORED_NOT_CHARGED",
     "USAGE_EVENT_KIND_ABORTED_NOT_CHARGED", "USAGE_EVENT_KIND_USAGE_BASED",
     "USAGE_EVENT_KIND_USER_API_KEY", "USAGE_EVENT_KIND_UNSPECIFIED", ""}

SubscriptionNames == {"", "pro-free-trial", "free", "team"}

TokenUsages ==
    {undefined,
     <<[inputTokens |-> 0, outputTokens |-> 0, cacheReadTokens |-> 0,
        cacheWriteTokens |-> 0, totalCents |-> 0]>>,
     <<[inputTokens |-> 3, outputTokens |-> 2, cacheReadTokens |-> 1,
        cacheWriteTokens |-> 0, totalCents |-> 250]>>}

\* usageBasedCosts: missing, the vendor's '-', amounts, and an amount with a currency sign
UsageBasedStrings == {undefined, <<"-">>, <<"0">>, <<"7">>, <<"$", "7">>}

\* timestamp: missing, an instant, not a number, an instant before 2020
Timestamps == {undefined, <<"4", "4">>, <<"x">>, <<"0", "5">>}

RawRecords ==
    {[timestamp |-> ts, kind |-> k, customSubscriptionName |-> n, model |-> m,
      tokenUsage |-> tu, requestsCosts |-> rc, usageBasedCosts |-> ub] :
     ts \in Timestamps, k \in VendorKinds, n \in SubscriptionNames,
     m \in {"", "default", "gpt-5"}, tu \in TokenUsages, rc \in {0, 2},
     ub \in UsageBasedStrings}

InitParse ==
    /\ usageFile = <<>>
    /\ statsFile = <<>>
    /\ now = 48
    /\ last = NoOp
    /\ pc = "raw"
    /\ cycle \in {[phase |-> "parse", input |-> r, out |-> <<>>, parsedData |-> <<>>] :
                   r \in RawRecords \cup {null}}
    /\ probe = NoProbe

\* parseUsageEvent(event)
NormalizeRecord ==
    /\ pc = "raw"
    /\ cycle' = [cycle EXCEPT !.out = <<parseUsageEvent(cycle.input, <<"a">>, now)>>]
    /\ pc' = "normalized"
    /\ UNCHANGED <<usageFile, statsFile, now, last, probe>>

\* collectFromAPI's parse of a fetch that delivered the record and a well-formed one
ParseRecords ==
    /\ pc = "normalized"
    /\ cycle' = [cycle EXCEPT !.parsedData =
                    collectFromAPIParse(<<<<cycle.input, <<"a">>>>,
                                          <<RawEvent(<<"2", "0">>, 0), <<"b">>>>>>, now)]
    /\ pc' = "parsed"
    /\ UNCHANGED <<usageFile, statsFile, now, last, probe>>

NextParse ==
    \/ NormalizeRecord
    \/ ParseRecords

SpecParse == InitParse /\ [][NextParse]_vars

RecordNormalized == cycle.phase = "parse" /\ pc # "raw"

CanonicalFields ==
    {"id", "date", "model", "kind", "kindDisplay", "tokens", "tokenUsage", "cost",
     "costInfo", "credits", "source"}

\* C15 (as claimed): the normalizer returns null for null and a canonical event for
\* every object record, in which a missing or malformed timestamp gives the current
\* time, a missing token usage gives zero tokens and zero metered cost, a missing or
\* unlisted kind gives unknown, a missing model gives auto, and a missing or
\* non-numeric usage-based cost gives 0; the parse of a fetch holds no null and keeps
\* the other record.
C15_NormalizerTotal ==
    RecordNormalized =>
        LET r == cycle.input
            e == cycle.out[1]
        IN  /\ r = null => e = null
            /\ r # null =>
                  /\ e # null
                  /\ CanonicalFields \subseteq DOMAIN e
                  /\ (r.timestamp = undefined \/ parseInt(r.timestamp) = NaN) =>
                        e.date = DateObj(now)
                  /\ r.tokenUsage = undefined =>
                        /\ e.tokens = 0
                        /\ e.costInfo[1].totalCents = 0
                  /\ r.kind \in {"", "USAGE_EVENT_KIND_UNSPECIFIED"} => e.kind = "unknown"
                  /\ r.model = "" => e.model = "auto"
                  /\ (r.usageBasedCosts = undefined \/ LeadingDigits(r.usageBasedCosts) = <<>>) =>
                        e.costInfo[1].usageBasedCosts = Num(0)
            /\ pc = "parsed" =>
                  /\ \A i \in DOMAIN cycle.parsedData : cycle.parsedData[i] # null
                  /\ Len(cycle.parsedData) = IF r = null THEN 1 ELSE 2

\* C16: the cost of a normalized event is 0 for the five included-plan kinds whatever
\* its metered cents; else 0 for the errored and aborted kinds; else the metered cents
\* when positive; else the usage-based amount when positive; else the request cost
\* when positive; else 0.  displayCost is the same amount.
C16_CostPrecedence ==
    (RecordNormalized /\ cycle.input # null) =>
        LET r == cycle.input
            e == cycle.out[1]
            totalCents == IF r.tokenUsage = undefined THEN 0 ELSE r.tokenUsage[1].totalCents
            usageBased == e.costInfo[1].usageBasedCosts
            expected ==
                IF r.kind \in {"USAGE_EVENT_KIND_CUSTOM_SUBSCRIPTION",
                               "USAGE_EVENT_KIND_INCLUDED_IN_PRO",
                               "USAGE_EVENT_KIND_INCLUDED_IN_BUSINESS",
                               "USAGE_EVENT_KIND_INCLUDED_IN_PRO_PLUS",
                               "USAGE_EVENT_KIND_INCLUDED_IN_ULTRA"} THEN 0
                ELSE IF r.kind \in {"USAGE_EVENT_KIND_ERRORED_NOT_CHARGED",
                                    "USAGE_EVENT_KIND_ABORTED_NOT_CHARGED"} THEN 0
                ELSE IF totalCents > 0 THEN totalCents
                ELSE IF usageBased # NaN /\ usageBased[1] > 0 THEN usageBased[1]
                ELSE IF r.requestsCosts > 0 THEN 100 * r.requestsCosts
                ELSE 0
        IN  /\ e.cost = expected
            /\ e.costInfo[1].displayCost = expected

\* C16's case: a record of an included-plan kind with metered cents was normalized.
C16_Witness ==
    /\ RecordNormalized
    /\ cycle.input # null
    /\ cycle.input.kind = "USAGE_EVENT_KIND_INCLUDED_IN_PRO"
    /\ cycle.input.tokenUsage # undefined
    /\ cycle.input.tokenUsage[1].totalCents = 250
    /\ cycle.out[1].cost = 0

KindTable ==
    {<<"USAGE_EVENT_KIND_INCLUDED_IN_PRO", "included_pro", "Included in Pro">>,
     <<"USAGE_EVENT_KIND_INCLUDED_IN_BUSINESS", "included_business", "Included in Business">>,
     <<"USAGE_EVENT_KIND_INCLUDED_IN_PRO_PLUS", "included_pro_plus", "Included in Pro+">>,
     <<"USAGE_EVENT_KIND_INCLUDED_IN_ULTRA", "included_ultra", "Included in Ultra">>,
     <<"USAGE_EVENT_KIND_ERRORED_NOT_CHARGED", "errored_not_charged", "Errored, Not Charged">>,
     <<"USAGE_EVENT_KIND_ABORTED_NOT_CHARGED", "aborted_not_charged", "Aborted, Not Charged">>,
     <<"USAGE_EVENT_KIND_USAGE_BASED", "usage_based", "Usage Based">>,
     <<"USAGE_EVENT_KIND_USER_API_KEY", "user_api_key", "User API Key">>}

\* C17: the kind and label of a normalized event are those of the table: for the
\* custom-subscription kind, pro-free-trial and free by name, otherwise
\* custom_subscription labelled with the name or "Custom Subscription"; for the eight
\* other listed kinds their row; unknown/Unknown for every other or missing kind.
C17_KindMapping ==
    (RecordNormalized /\ cycle.input # null) =>
        LET r == cycle.input
            pair == <<cycle.out[1].kind, cycle.out[1].kindDisplay>>
        IN  /\ \A row \in KindTable : r.kind = row[1] => pair = <<row[2], row[3]>>
            /\ r.kind = "USAGE_EVENT_KIND_CUSTOM_SUBSCRIPTION" =>
                  /\ r.customSubscriptionName = "pro-free-trial" =>
                        pair = <<"pro-free-trial", "Pro Free Trial">>
                  /\ r.customSubscriptionName = "free" => pair = <<"free", "Free">>
                  /\ r.customSubscriptionName = "" =>
                        pair = <<"custom_subscription", "Custom Subscription">>
                  /\ r.customSubscriptionName \notin {"pro-free-trial", "free", ""} =>
                        pair = <<"custom_subscription", r.customSubscriptionName>>
            /\ (r.kind # "USAGE_EVENT_KIND_CUSTOM_SUBSCRIPTION"
                  /\ \A row \in KindTable : r.kind # row[1]) =>
                  pair = <<"unknown", "Unknown">>

\* C17's case: a custom-subscription record named "team" was normalized.
C17_Witness ==
    /\ RecordNormalized
    /\ cycle.input # null
    /\ cycle.input.kind = "USAGE_EVENT_KIND_CUSTOM_SUBSCRIPTION"
    /\ cycle.input.customSubscriptionName = "team"
    /\ cycle.out[1].kindDisplay = "team"

-----------------------------------------------------------------------------
(* Specification SpecStats: calculateStats applied to a list of canonical
   events.  The events are normalized records of a charged kind, the errored
   kind and an included kind, with and without metered cents, with and
   without a usage-based amount, of two models, of two UTC days. *)

StatsEvents ==
    {parseUsageEvent([timestamp |-> ts, kind |-> k, customSubscriptionName |-> "",
                      model |-> m, tokenUsage |-> tu, requestsCosts |-> 0,
                      usageBasedCosts |-> ub], <<"a">>, 48) :
     ts \in {<<"2", "0">>, <<"4", "4">>},
     k \in {"USAGE_EVENT_KIND_USAGE_BASED", "USAGE_EVENT_KIND_ERRORED_NOT_CHARGED",
            "USAGE_EVENT_KIND_INCLUDED_IN_PRO"},
     m \in {"default", "gpt-5"},
     tu \in {undefined,
             <<[inputTokens |-> 3, outputTokens |-> 2, cacheReadTokens |-> 1,
                cacheWriteTokens |-> 0, totalCents |-> 500]>>},
     ub \in {<<"-">>, <<"7">>}}

InitStats ==
    /\ usageFile = <<>>
    /\ statsFile = <<>>
    /\ now = 48
    /\ last = NoOp
    /\ pc = "events"
    /\ cycle \in {[phase |-> "stats", data |-> d] :
                   d \in UNION {[1..n -> StatsEvents] : n \in 0..MaxEvents}}
    /\ probe = NoProbe

\* updateStats(events): the statistics of the list are computed and written
UpdateStats ==
    /\ pc = "events"
    /\ statsFile' = <<calculateStats(cycle.data, now)>>
    /\ pc' = "written"
    /\ UNCHANGED <<usageFile, now, last, cycle, probe>>

NextStats == UpdateStats

SpecStats == InitStats /\ [][NextStats]_vars

StatsWritten == cycle.phase = "stats" /\ pc = "written"

\* C18 (as claimed): totalCost and each model's cost are the sums of the events' cost
\* over the events that are not errored_not_charged; estimatedCost and each kind's
\* cost are the sums of the events' cost over all events (of that kind).
C18_StatsCostAsymmetry ==
    StatsWritten =>
        LET data == cycle.data
            stats == statsFile[1]
            Total(S) == SumSeq([i \in 1..Len(SelectSeq(data, LAMBDA e : e \in S)) |->
                                   SelectSeq(data, LAMBDA e : e \in S)[i].cost])
            All == {data[i] : i \in DOMAIN data}
            Paid == {e \in All : e.kind # "errored_not_charged"}
        IN  /\ stats.totalCost = Total(Paid)
            /\ stats.estimatedCost = Total(All)
            /\ \A m \in DOMAIN stats.byModel :
                  stats.byModel[m].cost = Total({e \in Paid : e.model = m})
            /\ \A k \in DOMAIN stats.byKind :
                  stats.byKind[k].cost = Total({e \in All : e.kind = k})

\* C18 (amended): the same sums, where the amount an event contributes is its
\* costInfo.originalCost when that is non-zero and its cost otherwise; every model and
\* every kind of the list has its entry.
C18_StatsCostAsymmetryOfOriginalCost ==
    StatsWritten =>
        LET data == cycle.data
            stats == statsFile[1]
            Amount(e) == IF e.costInfo[1].originalCost # 0
                         THEN e.costInfo[1].originalCost ELSE e.cost
            Total(S) == SumSeq([i \in 1..Len(SelectSeq(data, LAMBDA e : e \in S)) |->
                                   Amount(SelectSeq(data, LAMBDA e : e \in S)[i])])
            All == {data[i] : i \in DOMAIN data}
            Paid == {e \in All : e.kind # "errored_not_charged"}
        IN  /\ stats.totalCost = Total(Paid)
            /\ stats.estimatedCost = Total(All)
            /\ DOMAIN stats.byModel = {e.model : e \in All}
            /\ DOMAIN stats.byKind = {e.kind : e \in All}
            /\ \A m \in DOMAIN stats.byModel :
                  stats.byModel[m].cost = Total({e \in Paid : e.model = m})
            /\ \A k \in DOMAIN stats.byKind :
                  stats.byKind[k].cost = Total({e \in All : e.kind = k})

\* C18's case: one errored event of original cost 5.00 and two charged events of 5.00
\* each give totalCost 10.00, estimatedCost 15.00 and 5.00 under the errored kind.
C18_Witness ==
    /\ StatsWritten
    /\ Len(cycle.data) = 3
    /\ cycle.data[1].kind = "errored_not_charged"
    /\ cycle.data[1].costInfo[1].originalCost = 500
    /\ cycle.data[2].kind = "usage_based"
    /\ cycle.data[3].kind = "usage_based"
    /\ statsFile[1].totalCost = 1000
    /\ statsFile[1].estimatedCost = 1500
    /\ statsFile[1].byKind["errored_not_charged"].cost = 500

-----------------------------------------------------------------------------
(* The partition of the counters, under specification SpecStats *)

\* The sum of the values of a function with numeric values
RECURSIVE SumOver(_, _)
SumOver(f, S) ==
    IF S = {} THEN 0
    ELSE LET x == CHOOSE y \in S : TRUE IN f[x] + SumOver(f, S \ {x})

\* The orders in which a list of events can be handed over
Reorderings(data) ==
    {[i \in DOMAIN data |-> data[p[i]]] :
     p \in {q \in [DOMAIN data -> DOMAIN data] : \A i, j \in DOMAIN data : q[i] = q[j] => i = j}}

\* The counters of a result add up: counts, costs and tokens of the groups against the totals
CountersAddUp(stats) ==
    LET Sum(group, field) == SumOver([g \in DOMAIN group |-> group[g][field]], DOMAIN group)
    IN  /\ Sum(stats.byModel, "count") = stats.totalEvents
        /\ Sum(stats.byKind, "count") = stats.totalEvents
        /\ Sum(stats.byDate, "count") = stats.totalEvents
        /\ Sum(stats.byKind, "cost") = stats.estimatedCost
        /\ Sum(stats.byDate, "cost") = stats.estimatedCost
        /\ Sum(stats.byModel, "cost") = stats.totalCost
        /\ Sum(stats.byModel, "tokens") = stats.totalTokens
        /\ Sum(stats.byKind, "tokens") = stats.totalTokens

\* C36: for every event list the counters calculateStats returns add up (the byModel,
\* byKind and byDate counts to totalEvents, the byKind and byDate costs to
\* estimatedCost, the byModel costs to totalCost, the byModel and byKind tokens to
\* totalTokens), and the result is the same for every order of the same events.
C36_StatsPartition ==
    StatsWritten =>
        /\ CountersAddUp(statsFile[1])
        /\ \A other \in Reorderings(cycle.data) :
              calculateStats(other, now) = statsFile[1]

\* The counters add up for every list, in every order
C36_CountersAddUp ==
    StatsWritten =>
        \A other \in Reorderings(cycle.data) : CountersAddUp(calculateStats(other, now))

\* Two different events of one instant were aggregated, over two days, two kinds and
\* two models
C36_Probe ==
    /\ StatsWritten
    /\ Len(cycle.data) = 3
    /\ \E i, j \in DOMAIN cycle.data :
          /\ cycle.data[i] # cycle.data[j]
          /\ cycle.data[i].date = cycle.data[j].date
    /\ Cardinality(DOMAIN statsFile[1].byDate) = 2
    /\ Cardinality(DOMAIN statsFile[1].byKind) = 2
    /\ Cardinality(DOMAIN statsFile[1].byModel) = 2
    /\ statsFile[1].totalCost # statsFile[1].estimatedCost

-----------------------------------------------------------------------------
(* Specification SpecSave: calls of saveUsageData whose file writes can fail.
   A failed write of the dataset rejects the call; a failure while the
   statistics are computed or written is caught inside updateStats. *)

SaveOutcomes == {"saved", "statsFailed", "writeFailed"}

InitSave ==
    /\ usageFile = <<>>
    /\ statsFile = <<>>
    /\ now = 48
    /\ last = [op |-> "none", n |-> 0]
    /\ pc = "idle"
    /\ cycle = [phase |-> "save"]
    /\ probe = NoProbe

\* await saveUsageData(data, isIncremental), updateStats included
SaveUsageData ==
    /\ last.n < MaxSaves
    /\ \E data \in Batches(now), isIncremental \in BOOLEAN, outcome \in SaveOutcomes :
          LET doc == saveUsageData(data, isIncremental, usageFile, now)
          IN  /\ usageFile' = IF outcome = "writeFailed" THEN usageFile ELSE <<doc>>
              /\ statsFile' = IF outcome = "writeFailed" THEN statsFile
                              ELSE updateStats(doc.events, outcome = "statsFailed",
                                               statsFile, now)
              /\ last' = [op |-> "save", n |-> last.n + 1, data |-> data,
                          returned |-> outcome # "writeFailed", outcome |-> outcome,
                          at |-> now]
    /\ UNCHANGED <<now, pc, cycle, probe>>

NextSave ==
    \/ Tick
    \/ SaveUsageData

SpecSave == InitSave /\ [][NextSave]_vars

\* C19 (as claimed): whenever saveUsageData has returned successfully, the stats file
\* holds calculateStats of exactly the events the dataset file holds.
C19_StatsFollowDataset ==
    (last.op = "save" /\ last.returned) =>
        /\ statsFile # <<>>
        /\ usageFile # <<>>
        /\ statsFile[1] = calculateStats(usageFile[1].events, last.at)

-----------------------------------------------------------------------------
(* Specification SpecApp: the tracker's start(), its interval timer and
   stop().  `pipelines` lists the calls of collectData that have been started
   and have not yet settled, each with who started it and how far its
   collectUsageData has come.  The timer fires every COLLECTION_INTERVAL;
   nothing bounds how long a collection takes, so a firing can come at any
   position of a running collection. *)

Positions == <<"navigate", "fetch", "merge">>

RemoveAt(s, i) == SubSeq(s, 1, i - 1) \o SubSeq(s, i + 1, Len(s))

InitApp ==
    /\ usageFile = <<>>
    /\ statsFile = <<>>
    /\ now = 48
    /\ last = NoOp
    /\ pc = "created"
    /\ cycle = [phase |-> "app", isRunning |-> FALSE, collectionInterval |-> FALSE,
                pipelines |-> <<>>]
    /\ probe = NoProbe

\* start() up to its await of the initial collectData (lines 41-54)
AppStart ==
    /\ pc \in {"created", "stopped", "startFailed"}
    /\ ~cycle.isRunning
    /\ Len(cycle.pipelines) < MaxInFlight
    /\ cycle' = [cycle EXCEPT !.pipelines = Append(@, [origin |-> "start", at |-> 1])]
    /\ pc' = "starting"
    /\ UNCHANGED <<usageFile, statsFile, now, last, probe>>

\* The interval's callback: it awaits collectData whatever is already running
\* (lines 120-127)
TimerTick ==
    /\ cycle.collectionInterval
    /\ Len(cycle.pipelines) < MaxInFlight
    /\ cycle' = [cycle EXCEPT !.pipelines = Append(@, [origin |-> "timer", at |-> 1])]
    /\ UNCHANGED <<usageFile, statsFile, now, last, pc, probe>>

\* A running collection reaches its next await
PipelineStep ==
    \E i \in DOMAIN cycle.pipelines :
        /\ cycle.pipelines[i].at < Len(Positions)
        /\ cycle' = [cycle EXCEPT !.pipelines[i].at = @ + 1]
        /\ UNCHANGED <<usageFile, statsFile, now, last, pc, probe>>

\* A collection returns; the initial one lets start() arm the timer and set isRunning
\* (lines 56-60)
PipelineFinished ==
    \E i \in DOMAIN cycle.pipelines :
        /\ cycle.pipelines[i].at = Len(Positions)
        /\ IF cycle.pipelines[i].origin = "start"
           THEN /\ cycle' = [cycle EXCEPT !.pipelines = RemoveAt(@, i),
                                          !.collectionInterval = TRUE,
                                          !.isRunning = TRUE]
                /\ pc' = "running"
           ELSE /\ cycle' = [cycle EXCEPT !.pipelines = RemoveAt(@, i)]
                /\ pc' = pc
        /\ UNCHANGED <<usageFile, statsFile, now, last, probe>>

\* A collection throws: the timer's callback logs it (lines 124-126), start() rethrows
\* (lines 62-65)
PipelineFailed ==
    \E i \in DOMAIN cycle.pipelines :
        /\ cycle' = [cycle EXCEPT !.pipelines = RemoveAt(@, i)]
        /\ pc' = IF cycle.pipelines[i].origin = "start" THEN "startFailed" ELSE pc
        /\ UNCHANGED <<usageFile, statsFile, now, last, probe>>

\* stop(): the timer is cleared and isRunning reset (lines 68-92)
AppStop ==
    /\ cycle.isRunning
    /\ cycle' = [cycle EXCEPT !.collectionInterval = FALSE, !.isRunning = FALSE]
    /\ pc' = "stopped"
    /\ UNCHANGED <<usageFile, statsFile, now, last, probe>>

NextApp ==
    \/ AppStart
    \/ TimerTick
    \/ PipelineStep
    \/ PipelineFinished
    \/ PipelineFailed
    \/ AppStop

SpecApp == InitApp /\ [][NextApp]_vars

\* C20 (as claimed): at most one collection is in flight at any time.
C20_SinglePipeline ==
    cycle.phase = "app" => Len(cycle.pipelines) <= 1

-----------------------------------------------------------------------------
(* Specification SpecPipeline: periodic collection cycles, one at a time,
   from the timer's callback through authentication, user info, fetch, merge
   and the publish notification, with the outcomes the environment decides:
   whether the session is authenticated, whether a file write or read
   fails, which subscribers are connected and whose socket write fails.
   `cycle` holds what outlives a cycle (n, clients, userInfoFile,
   writeFailures) and what the running cycle has done so far. *)

\* The interval's callback after collectData has thrown: without its catch the rejection
\* is unhandled and the process exits (app.js lines 167-170)
periodicCallbackUncaught(threw) == IF threw THEN "exited" ELSE "idle"

\* The interval's callback after collectData has settled: try/catch, the error is
\* logged (app.js lines 121-126)
periodicCallback(threw) == "idle"

\* The authentication test that proceeds anyway
authenticationGateOpen(isAuthenticated) == "userInfo"

\* if (!isAuthenticated) throw new Error('Authentication required') (lines 21-24)
authenticationGate(isAuthenticated) == IF isAuthenticated THEN "userInfo" ELSE "throw"

InitPipeline ==
    /\ usageFile \in {<<>>} \cup {<<d>> : d \in StoredDatasets}
    /\ statsFile = <<>>
    /\ now = 48
    /\ last = NoOp
    /\ pc = "idle"
    /\ cycle = [phase |-> "pipeline", n |-> 0, clients |-> {}, userInfoFile |-> <<>>,
                writeFailures |-> 0, pre |-> <<>>, isAuthenticated |-> "unasked",
                data |-> <<>>, isIncremental |-> FALSE,
                fetched |-> FALSE, userInfoSaved |-> FALSE, merge |-> "none",
                published |-> FALSE, delivered |-> {}, error |-> "none"]
    /\ probe = NoProbe

\* A browser opens the live-update stream (web_server.js, the /api/stream handler)
ClientConnects ==
    /\ pc # "exited"
    /\ \E c \in 1..MaxClients :
          /\ c \notin cycle.clients
          /\ cycle' = [cycle EXCEPT !.clients = @ \cup {c}]
    /\ UNCHANGED <<usageFile, statsFile, now, last, pc, probe>>

\* The timer fires with no collection running: collectData, collectUsageData up to the
\* authentication wait (lines 13-21)
PeriodicTick ==
    /\ pc = "idle"
    /\ cycle.n < MaxCycles
    /\ cycle' = [cycle EXCEPT !.n = @ + 1,
                              !.pre = <<[usageFile |-> usageFile, statsFile |-> statsFile,
                                          userInfoFile |-> cycle.userInfoFile]>>,
                              !.isAuthenticated = "unasked",
                              !.data = <<>>, !.isIncremental = FALSE, !.fetched = FALSE,
                              !.userInfoSaved = FALSE, !.merge = "none",
                              !.published = FALSE, !.delivered = {}, !.error = "none"]
    /\ pc' = "auth"
    /\ UNCHANGED <<usageFile, statsFile, now, last, probe>>

\* waitForAuthentication() has answered (lines 21-25)
WaitForAuthentication ==
    /\ pc = "auth"
    /\ \E isAuthenticated \in BOOLEAN :
          IF authenticationGate(isAuthenticated) = "throw"
          THEN /\ cycle' = [cycle EXCEPT !.isAuthenticated = "no",
                                         !.error = "Authentication required"]
               /\ pc' = periodicCallback(TRUE)
          ELSE /\ cycle' = [cycle EXCEPT
                                !.isAuthenticated = IF isAuthenticated THEN "yes" ELSE "no"]
               /\ pc' = "userInfo"
    /\ UNCHANGED <<usageFile, statsFile, now, last, probe>>

\* collectUserInfo(): the info is saved when the vendor gave some; every failure is
\* logged only (lines 701-759)
CollectUserInfo ==
    /\ pc = "userInfo"
    /\ \E outcome \in {"saved", "none", "failed"} :
          cycle' = IF outcome = "saved"
                   THEN [cycle EXCEPT !.userInfoFile = <<now>>, !.userInfoSaved = TRUE]
                   ELSE cycle
    /\ pc' = "fetch"
    /\ UNCHANGED <<usageFile, statsFile, now, last, probe>>

\* The strategy, collectFromAPI with one page answered, the active-events check of an
\* empty incremental fetch, and the DOM return when there is no data (lines 29-53)
CollectData ==
    /\ pc = "fetch"
    /\ \E parsedData \in Batches(now), responseTime \in {500, 4000}, response \in VendorPages :
          LET syncMetadata == getSyncMetadata(usageFile)
              isIncremental == collectIsIncremental(syncMetadata)
              adapted == updateAdaptivePageSize(responseTime, Len(parsedData), usageFile)
              data == IF isIncremental /\ Len(parsedData) = 0
                      THEN collectActiveEventsForUpdates(adapted, response, "none", now).events
                      ELSE parsedData
          IN  /\ usageFile' = adapted
              /\ cycle' = [cycle EXCEPT !.fetched = TRUE, !.data = data,
                                        !.isIncremental = isIncremental]
              /\ pc' = IF Len(data) = 0 THEN periodicCallback(FALSE) ELSE "merge"
    /\ UNCHANGED <<statsFile, now, last, probe>>

\* await this.dataStorage.mergeUsageData(data, isIncremental): it writes, its write
\* fails and it throws, or it finds nothing to write (lines 57-58)
MergeData ==
    /\ pc = "merge"
    /\ \E writeFails \in BOOLEAN :
          LET r == mergeUsageData(cycle.data, cycle.isIncremental, usageFile, now)
          IN  IF r.wrote /\ writeFails
              THEN /\ cycle' = [cycle EXCEPT !.merge = "threw", !.error = "write",
                                             !.writeFailures = @ + 1]
                   /\ pc' = periodicCallback(TRUE)
                   /\ UNCHANGED <<usageFile, statsFile>>
              ELSE /\ usageFile' = IF r.wrote THEN <<r.doc>> ELSE usageFile
                   /\ statsFile' = IF r.wrote
                                   THEN updateStats(r.doc.events, FALSE, statsFile, now)
                                   ELSE statsFile
                   /\ cycle' = [cycle EXCEPT !.merge = IF r.wrote THEN "wrote" ELSE "nothing"]
                   /\ pc' = "publish"
    /\ UNCHANGED <<now, last, probe>>

\* await this.webServer.broadcastUpdate() (lines 60-63; web_server.js lines 149-178)
Publish ==
    /\ pc = "publish"
    /\ \E loadFails \in BOOLEAN, dead \in SUBSET cycle.clients :
          IF cycle.clients = {}
          THEN /\ cycle' = [cycle EXCEPT !.published = TRUE]
               /\ pc' = periodicCallback(FALSE)
          ELSE IF loadFails
          THEN /\ cycle' = [cycle EXCEPT !.published = TRUE, !.error = "publish"]
               /\ pc' = periodicCallback(TRUE)
          ELSE /\ cycle' = [cycle EXCEPT !.published = TRUE,
                                         !.delivered = cycle.clients \ dead,
                                         !.clients = cycle.clients \ dead]
               /\ pc' = periodicCallback(FALSE)
    /\ UNCHANGED <<usageFile, statsFile, now, last, probe>>

NextPipeline ==
    \/ ClientConnects
    \/ PeriodicTick
    \/ WaitForAuthentication
    \/ CollectUserInfo
    \/ CollectData
    \/ MergeData
    \/ Publish

SpecPipeline == InitPipeline /\ [][NextPipeline]_vars

\* C21: in a cycle whose dataset write failed, the error reached the timer's callback
\* and was caught there (the process goes on, idle), no publish notification was sent,
\* and the timer can start the next cycle.
C21_WriteFailureHandled ==
    (cycle.phase = "pipeline" /\ cycle.error = "write") =>
        /\ pc = "idle"
        /\ cycle.merge = "threw"
        /\ ~cycle.published
        /\ cycle.delivered = {}
        /\ cycle.n < MaxCycles => ENABLED PeriodicTick

\* C21's case: a cycle is running that the timer started after a cycle whose dataset
\* write had failed.
C21_Witness ==
    /\ cycle.phase = "pipeline"
    /\ cycle.writeFailures = 1
    /\ cycle.n = 2
    /\ pc = "merge"

\* C22: in a cycle in which waitForAuthentication answered false, collectUsageData has
\* thrown "Authentication required" to its caller, nothing was fetched, no user info
\* was saved, the dataset (its adaptive page size included), the stats and the user
\* info are as the cycle found them, and nothing was published.
C22_AuthenticationFailure ==
    (cycle.phase = "pipeline" /\ cycle.isAuthenticated = "no") =>
        /\ cycle.error = "Authentication required"
        /\ pc = "idle"
        /\ ~cycle.fetched
        /\ ~cycle.userInfoSaved
        /\ cycle.merge = "none"
        /\ usageFile = cycle.pre[1].usageFile
        /\ statsFile = cycle.pre[1].statsFile
        /\ cycle.userInfoFile = cycle.pre[1].userInfoFile
        /\ ~cycle.published

\* C22's case: the second cycle failed authentication over a dataset, stats and user
\* info that the first cycle had written.
C22_Witness ==
    /\ cycle.phase = "pipeline"
    /\ cycle.n = 2
    /\ cycle.isAuthenticated = "no"
    /\ statsFile # <<>>
    /\ cycle.userInfoFile # <<>>

\* C23 (as claimed): the publish notification is invoked in a cycle only after that
\* cycle's merge has returned successfully, and only when that merge wrote the dataset.
C23_PublishOrdering ==
    (cycle.phase = "pipeline" /\ cycle.published) => cycle.merge = "wrote"

\* C24 (as claimed): once the merge of a cycle has succeeded, the publish notification
\* does not make the cycle fail, and the subscribers the message was delivered to are
\* still subscribed (only those whose write failed were dropped).
C24_PublishFireAndForget ==
    (cycle.phase = "pipeline" /\ cycle.merge \in {"wrote", "nothing"}) =>
        /\ cycle.error = "none"
        /\ cycle.delivered \subseteq cycle.clients

-----------------------------------------------------------------------------
(* C25, under SpecCycle *)

Watermarked(file) == file # <<>> /\ file[1].lastSyncDate \notin {<<>>, <<"0">>}

-----------------------------------------------------------------------------
(* The reconciler's place in the cycle, under specification SpecCycle *)

ParsePassed == cycle.phase # "idle" /\ pc \notin {"fetch", "parse"}

\* C31: in a cycle the reconciler runs if and only if the strategy is incremental and
\* the fetch yielded no event; it has not run while the fetch is going on, and when it
\* has run and the cycle is about to merge, the merge has not happened yet.
C31_ReconcilerTrigger ==
    cycle.phase # "idle" =>
        /\ ParsePassed =>
              ((cycle.reconciler # "skipped") <=>
                   (cycle.isIncremental /\ Len(cycle.allEvents) = 0))
        /\ ~ParsePassed => cycle.reconciler = "skipped"
        /\ (cycle.reconciler # "skipped" /\ pc = "collected") => cycle.merged = <<>>
        /\ cycle.merged # <<>> => ParsePassed

\* C31's case: an incremental cycle whose first page was empty ran the reconciler.
C31_Witness ==
    /\ cycle.phase = "running"
    /\ pc = "collected"
    /\ cycle.isIncremental
    /\ cycle.pages = <<(<<>>)>>
    /\ cycle.reconciler = "none"

-----------------------------------------------------------------------------
(* Specification SpecReconcile: collectActiveEventsForUpdates called over a
   dataset of events 4 and 28 hours old (16 and 40 after the clock moved),
   with any reply of the vendor of up to two records and any failing
   sub-step.  `cycle` records the last call. *)

VendorReplies == UNION {[1..n -> Fetchable] : n \in 0..2}

InitReconcile ==
    /\ usageFile \in {<<>>} \cup {<<saveUsageData(b, FALSE, <<>>, 48)>> : b \in Batches(48)}
    /\ statsFile = <<>>
    /\ now = 48
    /\ last = NoOp
    /\ pc = "idle"
    /\ cycle = [phase |-> "reconciler", called |-> FALSE, response |-> <<>>,
                failure |-> "none", emitted |-> <<>>]
    /\ probe = NoProbe

\* data = await this.collectActiveEventsForUpdates() (lines 223-433)
CollectActiveEventsForUpdates ==
    /\ cycle.phase = "reconciler"
    /\ \E response \in VendorReplies, failure \in ReconcilerFailures :
          cycle' = [cycle EXCEPT
                       !.called = TRUE,
                       !.response = response,
                       !.failure = failure,
                       !.emitted = collectActiveEventsForUpdates(
                                       usageFile, response, failure, now).events]
    /\ UNCHANGED <<usageFile, statsFile, now, last, pc, probe>>

NextReconcile == Tick \/ CollectActiveEventsForUpdates

SpecReconcile == InitReconcile /\ [][NextReconcile]_vars

\* The stored events whose date lies within the README's recency window before now
RecentStored ==
    IF usageFile = <<>> THEN <<>>
    ELSE SelectSeq(usageFile[1].events, LAMBDA e :
             TimeOf(e.date) >= now - CONFIG_README.ACTIVE_EVENTS_CHECK_HOURS * MsPerHour)

\* The returned records whose timestamp is the timestamp prefix of the id of an event
\* of `active`
Corresponding(response, active) ==
    SelectSeq(response, LAMBDA r :
        \E i \in DOMAIN active : SplitFirst(active[i].id) = StringOf(r[1].timestamp))

\* C32 (as claimed): a call of the reconciler in which no sub-step fails emits the
\* normalized version of exactly the returned records whose timestamp is the timestamp
\* prefix of the id of a stored event of the recency window: none that corresponds to
\* no such event, and every one that does.
C32_ReconcilerMatching ==
    (cycle.phase = "reconciler" /\ cycle.called /\ cycle.failure = "none") =>
        LET expected == Corresponding(cycle.response, RecentStored)
        IN  /\ Len(cycle.emitted) = Len(expected)
            /\ \A i \in DOMAIN expected :
                   cycle.emitted[i] = parseUsageEvent(expected[i][1], expected[i][2], now)

-----------------------------------------------------------------------------
(* Specification SpecActive: getActiveEvents applied to a stored event list
   of up to MaxEvents events, 4 and 28 hours old (16 and 40 after the clock
   moved), in every order. *)

StoredLists ==
    {b \in UNION {[1..n -> Normalized(48)] : n \in 0..MaxEvents} : DistinctIds(b)}

InitActive ==
    /\ usageFile \in {<<saveUsageData(b, FALSE, <<>>, 48)>> : b \in StoredLists}
    /\ statsFile = <<>>
    /\ now = 48
    /\ last = NoOp
    /\ pc = "idle"
    /\ cycle = [phase |-> "active", called |-> FALSE, at |-> 0, activeEvents |-> <<>>]
    /\ probe = NoProbe

\* activeEvents = this.dataStorage.getActiveEvents(existingData.events)
GetActiveEvents ==
    /\ cycle.phase = "active"
    /\ cycle' = [cycle EXCEPT !.called = TRUE,
                              !.at = now,
                              !.activeEvents = getActiveEvents(usageFile[1].events, now)]
    /\ UNCHANGED <<usageFile, statsFile, now, last, pc, probe>>

NextActive == Tick \/ GetActiveEvents

SpecActive == InitActive /\ [][NextActive]_vars

Members(events) == {events[i] : i \in DOMAIN events}

\* C33 (as claimed): getActiveEvents returns exactly the stored events whose date lies
\* within the recency window before now (24 hours), or, when more of them qualify than
\* the maximum count (100), that many of them, none older than one left out.  Stated
\* of the call made at the current time.
C33_ActiveSelection ==
    (cycle.phase = "active" /\ cycle.called /\ cycle.at = now) =>
        LET maxCount == CONFIG_README.ACTIVE_EVENTS_MAX_COUNT
            selected == Members(cycle.activeEvents)
            recent == Members(RecentStored)
        IN  IF Len(RecentStored) <= maxCount
            THEN selected = recent /\ Len(cycle.activeEvents) = Len(RecentStored)
            ELSE /\ selected \subseteq recent
                 /\ Len(cycle.activeEvents) = maxCount
                 /\ \A e \in selected, f \in recent \ selected :
                        TimeOf(e.date) >= TimeOf(f.date)

-----------------------------------------------------------------------------
(* Specification SpecWatermark: collection cycles against a vendor that holds
   a set of events and answers a request with its events of the requested
   range, newest first, one per page.  A request may fail, which ends the
   pagination with the pages obtained before it.  The vendor holds events of
   instants 20, 44 and 46, and one of instant 54 once that instant is past. *)

EarlyInstants == {20, 44, 46}
LateInstants == {54}

RECURSIVE Descending(_)
Descending(S) ==
    IF S = {} THEN <<>>
    ELSE LET m == CHOOSE m \in S : \A x \in S : x <= m
         IN  <<m>> \o Descending(S \ {m})

\* The dataset file after n pages answered with latency responseTime, none full
RECURSIVE AfterPages(_, _, _)
AfterPages(file, responseTime, n) ==
    IF n = 0 THEN file
    ELSE AfterPages(updateAdaptivePageSize(responseTime, 1, file), responseTime, n - 1)

InitWatermark ==
    /\ usageFile \in {<<>>,
                      <<saveUsageData(<<parseUsageEvent(RawEvent(<<"2", "0">>, 0), <<"a">>, 24)>>,
                                      FALSE, <<>>, 24)>>}
    /\ statsFile = <<>>
    /\ now = 48
    /\ last = NoOp
    /\ pc = "idle"
    /\ cycle = [phase |-> "watermark", vendor |-> EarlyInstants, data |-> <<>>,
                isIncremental |-> FALSE, endDate |-> 0, aborted |-> FALSE]
    /\ probe = NoProbe

\* An event is created at the vendor: its instant is past, and later than the end date
\* of every fetch made so far (a fetch made at or after its instant finds it)
VendorCreatesEvent ==
    /\ cycle.phase = "watermark"
    /\ \E t \in LateInstants \ cycle.vendor :
          /\ t <= now
          /\ cycle.endDate < t
          /\ cycle' = [cycle EXCEPT !.vendor = @ \cup {t}]
    /\ UNCHANGED <<usageFile, statsFile, now, last, pc, probe>>

\* collectUsageData up to its data (lines 29-47): strategy, the paginated fetch of the
\* requested range with its page-size updates, the parse, and the active-events check
\* of an empty incremental fetch
FetchRange ==
    /\ cycle.phase = "watermark"
    /\ pc = "idle"
    /\ LET syncMetadata == getSyncMetadata(usageFile)
           isIncremental == collectIsIncremental(syncMetadata)
           request == fetchRequest(syncMetadata, 1, now)
           startDate == parseInt(request.startDate)[1]
           endDate == parseInt(request.endDate)[1]
           pages == Descending({t \in cycle.vendor : startDate <= t /\ t <= endDate})
       IN  \E k \in 0..Len(pages), responseTime \in ResponseTimes :
              LET fetched == [i \in 1..k |-> <<RawEvent(NumToString(pages[i]), 0), <<"a">>>>]
                  answered == IF k = Len(pages) THEN k + 1 ELSE k
                  adapted == AfterPages(usageFile, responseTime, answered)
                  parsedData == collectFromAPIParse(fetched, now)
              IN  /\ usageFile' = adapted
                  /\ cycle' = [cycle EXCEPT
                        !.isIncremental = isIncremental,
                        !.endDate = endDate,
                        !.aborted = k < Len(pages),
                        !.data = IF reconcilerTriggered(isIncremental, parsedData)
                                 THEN collectActiveEventsForUpdates(
                                          adapted, <<>>, "none", now).events
                                 ELSE parsedData]
    /\ pc' = "collected"
    /\ UNCHANGED <<statsFile, now, last, probe>>

\* No data: the cycle returns what the DOM gives and stores nothing (lines 49-53)
StoreNothing ==
    /\ cycle.phase = "watermark"
    /\ pc = "collected"
    /\ Len(cycle.data) = 0
    /\ pc' = "idle"
    /\ UNCHANGED <<usageFile, statsFile, now, last, cycle, probe>>

\* await this.dataStorage.mergeUsageData(data, isIncremental) (lines 57-58)
MergeDelivered ==
    /\ cycle.phase = "watermark"
    /\ pc = "collected"
    /\ Len(cycle.data) > 0
    /\ LET r == mergeUsageData(cycle.data, cycle.isIncremental, usageFile, now)
       IN  /\ usageFile' = IF r.wrote THEN <<r.doc>> ELSE usageFile
           /\ statsFile' = IF r.wrote THEN updateStats(r.doc.events, FALSE, statsFile, now)
                           ELSE statsFile
    /\ cycle' = [cycle EXCEPT !.data = <<>>]
    /\ pc' = "idle"
    /\ UNCHANGED <<now, last, probe>>

NextWatermark ==
    \/ Tick
    \/ VendorCreatesEvent
    \/ FetchRange
    \/ StoreNothing
    \/ MergeDelivered

SpecWatermark == InitWatermark /\ [][NextWatermark]_vars

\* C34 (as claimed): between cycles, every vendor event whose instant is at or before
\* the watermark is in the dataset by timestamp prefix.
C34_WatermarkSound ==
    (cycle.phase = "watermark" /\ pc = "idle" /\ Watermarked(usageFile)) =>
        \A t \in cycle.vendor :
            t <= parseInt(usageFile[1].lastSyncDate)[1] =>
                NumToString(t) \in Prefixes(usageFile[1].events)

-----------------------------------------------------------------------------
(* Specification SpecOverlap: two collection cycles that overlap in time (the
   periodic timer starts a cycle while the previous one is still awaiting).
   Each cycle fetches one page, which rewrites the adaptive page size, and
   merges its batch.  Every `await` on the file system is a point where the
   other cycle may run: the page-size update and the merge each read the
   dataset file and write it back whole in a later step. *)

Cycles == {1, 2}

\* What the fetch of cycle c delivers: the events of instants 44 and 46 or one of them,
\* under ids of its own
OverlapBatches(c) ==
    LET e(t) == parseUsageEvent(RawEvent(t, 0), IF c = 1 THEN <<"a">> ELSE <<"b">>, 48)
    IN  {<<e(<<"4", "4">>)>>, <<e(<<"4", "6">>)>>, <<e(<<"4", "6">>), e(<<"4", "4">>)>>}

InitOverlap ==
    /\ usageFile = <<saveUsageData(<<parseUsageEvent(RawEvent(<<"2", "0">>, 0), <<"a">>, 24)>>,
                                   FALSE, <<>>, 24)>>
    /\ statsFile = <<>>
    /\ now = 48
    /\ last = NoOp
    /\ pc = [c \in Cycles |-> "idle"]
    /\ cycle = [phase |-> "overlap",
                newData |-> [c \in Cycles |-> <<>>],
                responseTime |-> [c \in Cycles |-> 0],
                loaded |-> [c \in Cycles |-> <<>>],
                toSave |-> [c \in Cycles |-> <<>>],
                written |-> {},
                watermark |-> 20]
    /\ probe = NoProbe

\* The cycle's page arrives and updateAdaptivePageSize loads the dataset
\* (data_storage.js:393)
PageSizeLoad(c) ==
    /\ cycle.phase = "overlap"
    /\ pc[c] = "idle"
    /\ \E newData \in OverlapBatches(c), responseTime \in ResponseTimes :
          cycle' = [cycle EXCEPT !.newData[c] = newData,
                                 !.responseTime[c] = responseTime,
                                 !.loaded[c] = usageFile]
    /\ pc' = [pc EXCEPT ![c] = "pageSize"]
    /\ UNCHANGED <<usageFile, statsFile, now, last, probe>>

\* updateAdaptivePageSize writes the loaded document back with the new size, if the
\* size changed (data_storage.js:408-415)
PageSizeWrite(c) ==
    /\ cycle.phase = "overlap"
    /\ pc[c] = "pageSize"
    /\ LET adapted == updateAdaptivePageSize(cycle.responseTime[c], Len(cycle.newData[c]),
                                             cycle.loaded[c])
       IN  usageFile' = IF adapted # cycle.loaded[c] THEN adapted ELSE usageFile
    /\ pc' = [pc EXCEPT ![c] = "merge"]
    /\ UNCHANGED <<statsFile, now, last, cycle, probe>>

\* mergeUsageData loads the dataset and computes the merged list (lines 279-345)
MergeLoad(c) ==
    /\ cycle.phase = "overlap"
    /\ pc[c] = "merge"
    /\ LET r == mergeUsageData(cycle.newData[c], TRUE, usageFile, now)
       IN  /\ cycle' = [cycle EXCEPT !.loaded[c] = usageFile,
                                     !.toSave[c] = IF r.wrote THEN r.doc.events ELSE <<>>]
           /\ pc' = [pc EXCEPT ![c] = IF r.wrote THEN "save" ELSE "done"]
    /\ UNCHANGED <<usageFile, statsFile, now, last, probe>>

\* saveUsageData(mergedEvents, true) loads the dataset for its page size (lines 26-29)
SaveLoad(c) ==
    /\ cycle.phase = "overlap"
    /\ pc[c] = "save"
    /\ cycle' = [cycle EXCEPT !.loaded[c] = usageFile]
    /\ pc' = [pc EXCEPT ![c] = "write"]
    /\ UNCHANGED <<usageFile, statsFile, now, last, probe>>

\* saveUsageData writes the document and the statistics (lines 48-69)
SaveWrite(c) ==
    /\ cycle.phase = "overlap"
    /\ pc[c] = "write"
    /\ LET doc == saveUsageData(cycle.toSave[c], TRUE, cycle.loaded[c], now)
       IN  /\ usageFile' = <<doc>>
           /\ statsFile' = updateStats(doc.events, FALSE, statsFile, now)
           /\ cycle' = [cycle EXCEPT
                  !.written = @ \cup {doc.events[i].id : i \in DOMAIN doc.events},
                  !.watermark = IF now > @ THEN now ELSE @]
    /\ pc' = [pc EXCEPT ![c] = "done"]
    /\ UNCHANGED <<now, last, probe>>

NextOverlap ==
    \/ Tick
    \/ \E c \in Cycles :
          \/ PageSizeLoad(c)
          \/ PageSizeWrite(c)
          \/ MergeLoad(c)
          \/ SaveLoad(c)
          \/ SaveWrite(c)

SpecOverlap == InitOverlap /\ [][NextOverlap]_vars

\* C35 (as claimed): whatever the interleaving of two overlapping cycles, every event
\* one of them has written is in the dataset, and the dataset's watermark is the
\* latest one written.
C35_NoLostUpdate ==
    cycle.phase = "overlap" =>
        /\ cycle.written \subseteq Ids(usageFile[1].events)
        /\ parseInt(usageFile[1].lastSyncDate) = Num(cycle.watermark)

-----------------------------------------------------------------------------
(* Specification SpecRecover: collection cycles over a dataset file that may
   be unparsable.  A cycle reads the sync metadata, fetches what the vendor
   delivers (the page size is adapted on the way), and merges or returns the
   DOM rows. *)

\* parseTokens(tokensText) for a text of digits with an optional K (lines 674-692)
parseTokens(tokensText) ==
    IF tokensText = <<>> \/ LeadingDigits(tokensText) = <<>> THEN 0
    ELSE LET value == DigitsValue(LeadingDigits(tokensText))
             rest == SubSeq(tokensText, Len(LeadingDigits(tokensText)) + 1, Len(tokensText))
         IN  IF rest # <<>> /\ Head(rest) \in {"K", "k"} THEN value * 1000 ELSE value

\* parseCost(costText) for a text of digits, in cents, with an optional $ (lines 694-699)
parseCost(costText) ==
    LET amount == IF costText # <<>> /\ Head(costText) = "$" THEN Tail(costText) ELSE costText
    IN  IF LeadingDigits(amount) = <<>> THEN 0 ELSE DigitsValue(LeadingDigits(amount))

\* The rows of the usage table: the texts of the first five cells
DomTables ==
    {<<>>,
     <<[dateText |-> <<"x">>, modelText |-> "auto", kindText |-> "included",
        tokensText |-> <<"6">>, costText |-> <<"$", "5">>]>>,
     <<[dateText |-> <<>>, modelText |-> "auto", kindText |-> "included",
        tokensText |-> <<"6">>, costText |-> <<"5">>]>>,
     <<[dateText |-> <<"x">>, modelText |-> "auto", kindText |-> "included",
        tokensText |-> <<"2", "K">>, costText |-> <<>>],
       [dateText |-> <<"y">>, modelText |-> "gpt-5", kindText |-> "usage-based",
        tokensText |-> <<>>, costText |-> <<"7">>]>>}

\* collectFromDOM() at time t over the rows of the table.  The row callback runs inside
\* the page, where this.parseTokens and this.parseCost resolve only if the page
\* provides them; a row whose callback throws is skipped (lines 463-473), and a
\* failure outside the rows returns [] (lines 484-487).
collectFromDOM(rows, helpersInPage, failed, t) ==
    IF failed THEN <<>>
    ELSE LET pushed == {i \in DOMAIN rows :
                          rows[i].dateText # <<>> /\ rows[i].modelText # "" /\ helpersInPage}
             Rank(i) == Cardinality({k \in pushed : k <= i})
         IN  [n \in 1..Cardinality(pushed) |->
                LET i == CHOOSE k \in pushed : Rank(k) = n
                IN  [id |-> <<"d", "o", "m", "_">> \o NumToString(t) \o <<"_">>
                              \o NumToString(i - 1),
                     date |-> toISOString(DateObj(t)),
                     model |-> rows[i].modelText,
                     kind |-> rows[i].kindText,
                     tokens |-> parseTokens(rows[i].tokensText),
                     cost |-> parseCost(rows[i].costText),
                     source |-> "DOM"]]

\* The fallback that hands the DOM events to the merge
afterDOMFallbackMerged(domData, isIncremental, file, t) ==
    IF file = <<>> \/ loadUsageData(file).threw \/ Len(domData) = 0 THEN file
    ELSE <<[file[1] EXCEPT !.events = domData \o @]>>

\* The dataset file after collectUsageData's fallback: return domData comes before the
\* merge and the broadcast, nothing is written (lines 49-53)
afterDOMFallback(domData, isIncremental, file, t) == file

InitRecover ==
    /\ usageFile \in {<<>>, UnparsableFile} \cup {<<d>> : d \in StoredDatasets}
    /\ statsFile = <<>>
    /\ now = 48
    /\ last = NoOp
    /\ pc = "idle"
    /\ cycle = [phase |-> "recover", n |-> 0, found |-> <<>>, unreadable |-> FALSE,
                isIncremental |-> FALSE, data |-> <<>>, returned |-> <<>>,
                broadcast |-> FALSE, outcome |-> "none"]
    /\ probe = NoProbe

\* collectUsageData up to the strategy decision (lines 13-33)
ReadSyncMetadata ==
    /\ pc = "idle"
    /\ cycle.n < MaxCycles
    /\ cycle' = [phase |-> "recover", n |-> cycle.n + 1, found |-> usageFile,
                 unreadable |-> loadUsageData(usageFile).threw,
                 isIncremental |-> collectIsIncremental(getSyncMetadata(usageFile)),
                 data |-> <<>>, returned |-> <<>>, broadcast |-> FALSE,
                 outcome |-> "running"]
    /\ pc' = "fetch"
    /\ UNCHANGED <<usageFile, statsFile, now, last, probe>>

\* collectFromAPI and, for an incremental cycle that fetched nothing, the active-events
\* check (lines 36-47)
CollectOverFile ==
    /\ pc = "fetch"
    /\ \E reply \in VendorReplies, responseTime \in ResponseTimes :
          LET parsedData == collectFromAPIParse(reply, now)
              file == updateAdaptivePageSize(responseTime, Len(reply), usageFile)
              r == collectActiveEventsForUpdates(file, <<>>, "none", now)
          IN  /\ DistinctIds(parsedData)
              /\ usageFile' = file
              /\ cycle' = [cycle EXCEPT !.data =
                              IF reconcilerTriggered(cycle.isIncremental, parsedData)
                              THEN r.events ELSE parsedData]
    /\ pc' = "collected"
    /\ UNCHANGED <<statsFile, now, last, probe>>

\* No data: the DOM rows are returned, nothing is stored (lines 49-53)
ReturnDOMRows ==
    /\ pc = "collected"
    /\ Len(cycle.data) = 0
    /\ \E rows \in DomTables, helpersInPage \in BOOLEAN, failed \in BOOLEAN :
          LET domData == collectFromDOM(rows, helpersInPage, failed, now)
          IN  /\ usageFile' = afterDOMFallback(domData, cycle.isIncremental, usageFile, now)
              /\ cycle' = [cycle EXCEPT !.returned = domData, !.outcome = "returned"]
    /\ pc' = "idle"
    /\ UNCHANGED <<statsFile, now, last, probe>>

\* await this.dataStorage.mergeUsageData(data, isIncremental): its loadUsageData (line
\* 282) throws on an unparsable file, the catch logs and throws again (lines 352-355),
\* and so does collectUsageData's (lines 67-70); after a merge that returned, the
\* web server is told (lines 60-63)
MergeOverFile ==
    /\ pc = "collected"
    /\ Len(cycle.data) > 0
    /\ IF loadUsageData(usageFile).threw
       THEN /\ cycle' = [cycle EXCEPT !.outcome = "failed"]
            /\ UNCHANGED <<usageFile, statsFile>>
       ELSE LET r == mergeUsageData(cycle.data, cycle.isIncremental, usageFile, now)
            IN  /\ usageFile' = IF r.wrote THEN <<r.doc>> ELSE usageFile
                /\ statsFile' = IF r.wrote THEN <<calculateStats(r.doc.events, now)>>
                                ELSE statsFile
                /\ cycle' = [cycle EXCEPT !.returned = cycle.data, !.broadcast = TRUE,
                                          !.outcome = "merged"]
    /\ pc' = "idle"
    /\ UNCHANGED <<now, last, probe>>

NextRecover == Tick \/ ReadSyncMetadata \/ CollectOverFile \/ ReturnDOMRows \/ MergeOverFile

SpecRecover == InitRecover /\ [][NextRecover]_vars

\* C37: a cycle that finds the dataset file unparsable is planned as a full
\* synchronization, and when it has fetched events it completes and leaves a dataset
\* that holds exactly the fetched events, so the file is readable for later cycles.
C37_UnreadableRecovery ==
    (cycle.unreadable /\ pc = "idle" /\ Len(cycle.data) > 0) =>
        /\ ~cycle.isIncremental
        /\ cycle.outcome = "merged"
        /\ ~loadUsageData(usageFile).threw
        /\ usageFile # <<>>
        /\ usageFile[1].events = StringifyAll(cycle.data)

\* A cycle that finds the dataset file unparsable is planned as a full synchronization
C37_FullPlanned ==
    (cycle.unreadable /\ cycle.outcome # "none") => ~cycle.isIncremental

\* Once unparsable, the dataset file stays unparsable whatever the cycles fetch
C37_StaysUnreadable ==
    [][loadUsageData(usageFile).threw => loadUsageData(usageFile').threw]_vars

\* The second cycle over an unparsable file has failed in its merge as the first did
C37_Probe ==
    /\ cycle.n = 2
    /\ cycle.unreadable
    /\ cycle.outcome = "failed"

\* The events and the watermark of a dataset file
Persisted(file) ==
    IF file = <<>> \/ loadUsageData(file).threw THEN file
    ELSE <<[events |-> file[1].events, lastSyncDate |-> file[1].lastSyncDate]>>

-----------------------------------------------------------------------------
(* Specification SpecTracker: the life of one CursorUsageTracker.  The entry
   scripts call initialize() and start(); runOnce() calls initialize(),
   collectData() and stop(); the signal handlers call stop() at whatever point
   the tracker is.  `cycle` holds the tracker's fields and what it has
   acquired: the browser session, the listening web server, the interval
   timer. *)

\* stop() over the tracker's fields: it returns at once unless isRunning, otherwise it
\* clears the timer, stops the web server, closes the browser and resets isRunning
\* (lines 68-98)
stop(tracker) ==
    IF ~tracker.isRunning THEN tracker
    ELSE [tracker EXCEPT !.collectionInterval = FALSE, !.server = FALSE,
                         !.browser = FALSE, !.isRunning = FALSE]

InitTracker ==
    /\ usageFile = <<>>
    /\ statsFile = <<>>
    /\ now = 48
    /\ last = NoOp
    /\ pc = "created"
    /\ cycle = [phase |-> "tracker", browser |-> FALSE, server |-> FALSE,
                collectionInterval |-> FALSE, isRunning |-> FALSE,
                collections |-> 0, stopReturned |-> FALSE]
    /\ probe = NoProbe

\* initialize(): the browser is launched; a failure before or after the launch is
\* thrown to the caller, nothing is closed (lines 19-39, browser_manager.js 14-66)
TrackerInitialize ==
    /\ pc \in {"created", "once"}
    /\ \E outcome \in {"ready", "launchFailed", "failedAfterLaunch"} :
          /\ cycle' = [cycle EXCEPT !.browser = outcome # "launchFailed"]
          /\ pc' = IF outcome # "ready" THEN "failed"
                   ELSE IF pc = "once" THEN "onceCollect" ELSE "initialized"
    /\ UNCHANGED <<usageFile, statsFile, now, last, probe>>

\* start() up to its await of the initial collection (lines 41-51)
TrackerStart ==
    /\ pc = "initialized"
    /\ ~cycle.isRunning
    /\ cycle' = [cycle EXCEPT !.server = TRUE]
    /\ pc' = "starting"
    /\ UNCHANGED <<usageFile, statsFile, now, last, probe>>

\* collectData(): the initial one of start(), the one of runOnce(), or one started by
\* the timer, merging what it collected
TrackerCollect ==
    /\ \/ pc \in {"starting", "onceCollect"}
       \/ pc = "running" /\ cycle.collectionInterval
    /\ cycle.collections < MaxCycles
    /\ \E newData \in Batches(now) :
          LET r == mergeUsageData(newData, usageFile # <<>>, usageFile, now)
          IN  /\ Len(newData) > 0
              /\ usageFile' = IF r.wrote THEN <<r.doc>> ELSE usageFile
              /\ statsFile' = IF r.wrote THEN <<calculateStats(r.doc.events, now)>>
                              ELSE statsFile
    /\ cycle' = [cycle EXCEPT
                    !.collections = @ + 1,
                    !.collectionInterval = IF pc = "starting" THEN TRUE ELSE @,
                    !.isRunning = IF pc = "starting" THEN TRUE ELSE @]
    /\ pc' = CASE pc = "starting" -> "running"
               [] pc = "onceCollect" -> "onceStop"
               [] OTHER -> pc
    /\ UNCHANGED <<now, last, probe>>

\* collectData() throws: start() and runOnce() throw it on (lines 62-65, 142-145), the
\* timer's callback logs it (lines 124-126)
TrackerCollectFailed ==
    /\ \/ pc \in {"starting", "onceCollect"}
       \/ pc = "running" /\ cycle.collectionInterval
    /\ pc' = IF pc = "running" THEN pc ELSE "failed"
    /\ cycle' = [cycle EXCEPT !.collections = IF @ < MaxCycles THEN @ + 1 ELSE @]
    /\ UNCHANGED <<usageFile, statsFile, now, last, probe>>

\* runOnce() is entered (line 132)
RunOnce ==
    /\ pc = "created"
    /\ pc' = "once"
    /\ UNCHANGED <<usageFile, statsFile, now, last, cycle, probe>>

\* runOnce(): await this.stop(), and the return (lines 138-140)
RunOnceStop ==
    /\ pc = "onceStop"
    /\ cycle' = [stop(cycle) EXCEPT !.stopReturned = TRUE]
    /\ pc' = "onceReturned"
    /\ UNCHANGED <<usageFile, statsFile, now, last, probe>>

\* SIGINT or SIGTERM: the handler awaits global.tracker.stop() (lines 150-164)
SignalStop ==
    /\ pc \in {"initialized", "starting", "running", "onceCollect"}
    /\ cycle' = [stop(cycle) EXCEPT !.stopReturned = TRUE]
    /\ pc' = "stopped"
    /\ UNCHANGED <<usageFile, statsFile, now, last, probe>>

NextTracker ==
    \/ Tick
    \/ TrackerInitialize
    \/ TrackerStart
    \/ TrackerCollect
    \/ TrackerCollectFailed
    \/ RunOnce
    \/ RunOnceStop
    \/ SignalStop

SpecTracker == InitTracker /\ [][NextTracker]_vars

\* C40: once runOnce has returned, the browser session initialize opened is closed; and
\* whenever stop() has returned, the browser is released and the timer stopped, also
\* when the tracker never reached the running state.
C40_ResourcesReleased ==
    /\ pc = "onceReturned" => ~cycle.browser
    /\ cycle.stopReturned => ~cycle.browser /\ ~cycle.collectionInterval

\* stop() releases everything when the tracker is running
C40_ReleasedWhenRunning ==
    [][(pc = "running" /\ cycle.isRunning /\ cycle'.stopReturned) =>
          ~cycle'.browser /\ ~cycle'.server /\ ~cycle'.collectionInterval]_vars

\* runOnce returned after a collection that was merged, and the browser is still open
C40_Probe ==
    /\ pc = "onceReturned"
    /\ usageFile # <<>>
    /\ cycle.browser

\* stop() returned for a tracker whose start() was awaiting its initial collection:
\* browser open, server listening
C40_ProbeStarting ==
    /\ pc = "stopped"
    /\ cycle.stopReturned
    /\ cycle.browser /\ cycle.server
    /\ ~cycle.collectionInterval

-----------------------------------------------------------------------------
(* The fetcher's requests and pages, under specification SpecCycle *)

\* C28 (as claimed): the requests of one fetch are for pages 1, 2, 3, ... in order, all
\* with the same date range and page size; the result is the concatenation, in page
\* order, of the pages before the first empty one; an empty page ends the fetch without
\* an error, whichever the strategy, and no request follows it.
C28_FetcherAccumulation ==
    cycle.phase # "idle" =>
        /\ \A i \in DOMAIN cycle.requests : cycle.requests[i].page = i
        /\ \A i, j \in DOMAIN cycle.requests :
               /\ cycle.requests[i].startDate = cycle.requests[j].startDate
               /\ cycle.requests[i].endDate = cycle.requests[j].endDate
               /\ cycle.requests[i].pageSize = cycle.requests[j].pageSize
        /\ \A i \in DOMAIN cycle.pages : i < Len(cycle.pages) => cycle.pages[i] # <<>>
        /\ cycle.allEvents = Flatten(cycle.pages)
        /\ (cycle.pages # <<>> /\ cycle.pages[Len(cycle.pages)] = <<>>) =>
               /\ pc # "fetch"
               /\ cycle.failedAt = 0
               /\ Len(cycle.requests) = Len(cycle.pages)

-----------------------------------------------------------------------------
(* Specification SpecFetch: one call of fetchAllEvents against a vendor that
   has finitely many non-empty pages in the requested range.  Every request
   is answered, with the page the vendor has for it, or rejected. *)

InitFetch ==
    /\ usageFile \in {<<>>} \cup {<<d>> : d \in StoredDatasets}
    /\ statsFile = <<>>
    /\ now = 48
    /\ last = NoOp
    /\ pc = "loop"
    /\ \E vendorPages \in 0..MaxVendorPages :
          cycle = [phase |-> "fetchAllEvents",
                   vendorPages |-> vendorPages,
                   syncMetadata |-> getSyncMetadata(usageFile),
                   loop |-> [allEvents |-> <<>>, pageNum |-> 1, hasMore |-> TRUE],
                   failed |-> FALSE,
                   result |-> <<>>]
    /\ probe = NoProbe

\* One iteration of the while loop whose request is answered (lines 116-212)
PageAnswered ==
    /\ pc = "loop"
    /\ cycle.loop.hasMore
    /\ \E events \in VendorPages, responseTime \in ResponseTimes :
          /\ (Len(events) > 0) = (cycle.loop.pageNum <= cycle.vendorPages)
          /\ usageFile' = updateAdaptivePageSize(responseTime, Len(events), usageFile)
          /\ cycle' = [cycle EXCEPT
                          !.loop = fetchStep(cycle.loop, [kind |-> "page", events |-> events])]
    /\ UNCHANGED <<statsFile, now, last, pc, probe>>

\* One iteration whose page.evaluate rejects (lines 214-217)
PageRejected ==
    /\ pc = "loop"
    /\ cycle.loop.hasMore
    /\ cycle' = [cycle EXCEPT
                    !.loop = fetchStep(cycle.loop, [kind |-> "rejected"]),
                    !.failed = TRUE]
    /\ UNCHANGED <<usageFile, statsFile, now, last, pc, probe>>

\* The loop's condition is false: return allEvents (line 220)
ReturnAllEvents ==
    /\ pc = "loop"
    /\ ~cycle.loop.hasMore
    /\ cycle' = [cycle EXCEPT !.result = cycle.loop.allEvents]
    /\ pc' = "returned"
    /\ UNCHANGED <<usageFile, statsFile, now, last, probe>>

NextFetch ==
    \/ PageAnswered
    \/ PageRejected
    \/ ReturnAllEvents

\* Every request the loop issues is answered in the end, and the loop goes on running
SpecFetch ==
    /\ InitFetch
    /\ [][NextFetch]_vars
    /\ WF_vars(PageAnswered)
    /\ WF_vars(ReturnAllEvents)

\* C29: against a vendor with finitely many non-empty pages, fetchAllEvents returns, and
\* what it returns is a finite sequence of at most the vendor's events.
C29_FetcherTerminates ==
    <>(pc = "returned" /\ Len(cycle.result) <= cycle.vendorPages)

\* C29's case: the fetch returned after the vendor's last non-empty page and the empty
\* page behind it, with no failed request.
C29_Witness ==
    /\ cycle.phase = "fetchAllEvents"
    /\ pc = "returned"
    /\ ~cycle.failed
    /\ cycle.vendorPages = MaxVendorPages
    /\ Len(cycle.result) = MaxVendorPages

-----------------------------------------------------------------------------
(* Specification SpecPages: one fetchAllEvents loop whose pages come with any
   latency and any count of events up to the size the loop asks for.  The
   loop reads the size to ask for once, before its first page (line 112);
   `cycle` records the last page. *)

\* The page size the next fetch will read from getSyncMetadata()
CurrentPageSize == getSyncMetadata(usageFile).adaptivePageSize

InitPages ==
    /\ usageFile \in {<<>>} \cup
                     {<<DatasetWithPageSize(p)>> : p \in {MinPageSize, DefaultPageSize, MaxPageSize}}
    /\ statsFile = <<>>
    /\ now = 48
    /\ last = NoOp
    /\ pc = "fetch"
    /\ cycle = [phase |-> "pages of a fetch",
                pageSize |-> fetchRequest(getSyncMetadata(usageFile), 1, now).pageSize,
                paged |-> FALSE, before |-> 0, responseTime |-> 0, eventsCount |-> 0]
    /\ probe = NoProbe

\* One answered page of the loop: its latency and count go to updateAdaptivePageSize,
\* and an empty page ends the loop (lines 186-212)
FetchedPage ==
    /\ cycle.phase = "pages of a fetch"
    /\ pc = "fetch"
    /\ \E responseTime \in Latencies,
          eventsCount \in {0, 1, cycle.pageSize} \cup ({CurrentPageSize} \cap (1..cycle.pageSize)) :
          /\ usageFile' = updateAdaptivePageSize(responseTime, eventsCount, usageFile)
          /\ cycle' = [cycle EXCEPT !.paged = TRUE,
                                    !.before = CurrentPageSize,
                                    !.responseTime = responseTime,
                                    !.eventsCount = eventsCount]
          /\ pc' = IF eventsCount = 0 THEN "returned" ELSE "fetch"
    /\ UNCHANGED <<statsFile, now, last, probe>>

NextPages == FetchedPage

SpecPages == InitPages /\ [][NextPages]_vars

\* C30 (as claimed): after each page, the page size is 1.5 times what it was (at most
\* 1000) if the latency was below 1000 ms and the page held as many events as were
\* requested for it, 0.7 times what it was (at least 100) if the latency was above
\* 3000 ms, and what it was otherwise; the products are taken up to rounding.  Stated
\* for fetches over an existing dataset.
C30_AdaptiveRule ==
    (cycle.phase = "pages of a fetch" /\ cycle.paged /\ usageFile # <<>>) =>
        LET after == CurrentPageSize
            before == cycle.before
        IN  IF cycle.responseTime < 1000 /\ cycle.eventsCount = cycle.pageSize
            THEN IF 3 * before >= 2 * MaxPageSize THEN after = MaxPageSize
                 ELSE 2 * after - 3 * before \in {-1, 0, 1}
            ELSE IF cycle.responseTime > 3000
                 THEN IF 7 * before <= 10 * MinPageSize THEN after = MinPageSize
                      ELSE 10 * after - 7 * before \in -9..9
                 ELSE after = before

-----------------------------------------------------------------------------
(* The addition pass, under specification Spec *)

FreshIncoming ==
    {j \in DOMAIN last.newData :
        /\ last.newData[j].id \notin Ids(PreEvents)
        /\ SplitFirst(last.newData[j].id) \notin Prefixes(PreEvents)}

\* C27: in an incremental merge that writes, the events added to the dataset are exactly
\* the incoming events whose id is not stored and whose timestamp prefix is not stored:
\* each of them is in the result, the result has one more event per such incoming event,
\* every other event of the result has a stored id, and a prefix that was stored has as
\* many entries after the merge as before it.
C27_AdditionPass ==
    (IncrementalOverDataset /\ last.wrote) =>
        /\ \A j \in FreshIncoming :
               \E i \in DOMAIN PostEvents : PostEvents[i] = Stringify(last.newData[j])
        /\ Len(PostEvents) = Len(PreEvents) + Cardinality(FreshIncoming)
        /\ \A i \in DOMAIN PostEvents :
               \/ PostEvents[i].id \in Ids(PreEvents)
               \/ \E j \in FreshIncoming : PostEvents[i] = Stringify(last.newData[j])
        /\ \A T \in Prefixes(PreEvents) :
               Len(WithPrefix(PostEvents, T)) = Len(WithPrefix(PreEvents, T))

\* C27's case: an incremental merge wrote a batch that holds a changed version of a stored
\* event, under a new id, and an event of a fresh prefix.
C27_Witness ==
    /\ IncrementalOverDataset /\ last.wrote
    /\ FreshIncoming # {}
    /\ \E j \in DOMAIN last.newData, i \in DOMAIN PreEvents :
           /\ SplitFirst(last.newData[j].id) = SplitFirst(PreEvents[i].id)
           /\ last.newData[j].id \notin Ids(PreEvents)
           /\ isEventUpdated(PreEvents[i], last.newData[j])
    /\ Len(PostEvents) = Len(PreEvents) + 1

-----------------------------------------------------------------------------
(* Specification SpecVendor: collection cycles that keep running, with
   successful fetches, over a dataset that holds the event of instant 44,
   4 hours old.  The vendor may change the credits of that event; each fetch
   returns the vendor's current record of it, or not, and a record that is
   new to the dataset, or not; the reply to the reconciler's request always
   holds the vendor's current record of instant 44. *)

ArrivalTimes == {<<"4", "5">>, <<"4", "6">>, <<"4", "7">>}

VendorRecord(credits) == <<RawEvent(<<"4", "4">>, credits), <<"b">>>>

InitVendor ==
    /\ usageFile = <<saveUsageData(<<parseUsageEvent(RawEvent(<<"4", "4">>, 0), <<"a">>, 44)>>,
                                   FALSE, <<>>, 44)>>
    /\ statsFile = <<>>
    /\ now = 48
    /\ last = NoOp
    /\ pc = "idle"
    /\ cycle = [phase |-> "vendor", credits |-> 0, data |-> <<>>, isIncremental |-> FALSE]
    /\ probe = NoProbe

\* The vendor changes the credits of the event of instant 44
VendorChangesEvent ==
    /\ cycle.phase = "vendor"
    /\ cycle.credits = 0
    /\ cycle' = [cycle EXCEPT !.credits = 1]
    /\ UNCHANGED <<usageFile, statsFile, now, last, pc, probe>>

\* collectUsageData up to its data: strategy, a one-page fetch with its page-size
\* update, the parse, and the active-events check of an empty incremental fetch
\* (lines 29-47)
FetchEvents ==
    /\ pc = "idle"
    /\ \E withStored \in BOOLEAN, arrival \in {<<>>} \cup {<<t>> : t \in ArrivalTimes},
          responseTime \in ResponseTimes :
          LET syncMetadata == getSyncMetadata(usageFile)
              isIncremental == collectIsIncremental(syncMetadata)
              fetched == (IF withStored THEN <<VendorRecord(cycle.credits)>> ELSE <<>>)
                         \o [i \in DOMAIN arrival |-> <<RawEvent(arrival[i], 0), <<"a">>>>]
              adapted == updateAdaptivePageSize(responseTime, Len(fetched), usageFile)
              parsedData == collectFromAPIParse(fetched, now)
          IN  /\ \A i \in DOMAIN arrival, j \in DOMAIN usageFile[1].events :
                    SplitFirst(usageFile[1].events[j].id) # arrival[i]
              /\ usageFile' = adapted
              /\ cycle' = [cycle EXCEPT
                    !.isIncremental = isIncremental,
                    !.data = IF isIncremental /\ Len(parsedData) = 0
                             THEN collectActiveEventsForUpdates(
                                      adapted, <<VendorRecord(cycle.credits)>>, "none", now).events
                             ELSE parsedData]
    /\ pc' = "collected"
    /\ UNCHANGED <<statsFile, now, last, probe>>

\* No data: the cycle returns what the DOM gives and stores nothing (lines 49-53)
ReturnNothing ==
    /\ cycle.phase = "vendor"
    /\ pc = "collected"
    /\ Len(cycle.data) = 0
    /\ pc' = "idle"
    /\ UNCHANGED <<usageFile, statsFile, now, last, cycle, probe>>

\* await this.dataStorage.mergeUsageData(data, isIncremental) (lines 57-58)
MergeFetched ==
    /\ cycle.phase = "vendor"
    /\ pc = "collected"
    /\ Len(cycle.data) > 0
    /\ \E r \in {mergeUsageData(cycle.data, cycle.isIncremental, usageFile, now)} :
          /\ usageFile' = IF r.wrote THEN <<r.doc>> ELSE usageFile
          /\ statsFile' = IF r.wrote THEN updateStats(r.doc.events, FALSE, statsFile, now)
                          ELSE statsFile
    /\ cycle' = [cycle EXCEPT !.data = <<>>]
    /\ pc' = "idle"
    /\ UNCHANGED <<now, last, probe>>

NextVendor ==
    \/ VendorChangesEvent
    \/ FetchEvents
    \/ ReturnNothing
    \/ MergeFetched

\* The scheduler keeps starting cycles and every started cycle runs to its end
SpecVendor ==
    /\ InitVendor
    /\ [][NextVendor]_vars
    /\ WF_vars(FetchEvents \/ ReturnNothing \/ MergeFetched)

StoredCredits ==
    {usageFile[1].events[i].credits :
        i \in {j \in DOMAIN usageFile[1].events :
                  SplitFirst(usageFile[1].events[j].id) = <<"4", "4">>}}

\* C26 (as claimed): once the vendor has changed the credits of the stored event of
\* instant 44, which is within the active window, some later cycle replaces the stored
\* event with the changed version.
C26_UpdateDetected ==
    (cycle.credits = 1) ~> (StoredCredits = {1})

====
